---- MODULE Spec2Model ----
(***************************************************************************)
(* A model of tensorflow/python/data/ops/dataset_ops.py:                   *)
(*   - Dataset._GeneratorState and the generator_py_func of                *)
(*     Dataset.from_generator (specification Spec),                        *)
(*   - Iterator: creation (from_dataset, from_structure,                   *)
(*     from_string_handle, make_one_shot_iterator), make_initializer,      *)
(*     initializer, get_next                                               *)
(*     (specification SpecIter),                                           *)
(*   - PrefetchDataset and the prefetch stage it configures                *)
(*     (specification SpecPrefetch),                                       *)
(*   - Dataset.map, MapDataset, ParallelMapDataset (SpecMap),               *)
(*   - Iterator.dispose_op and the workers of the stages (SpecDispose),     *)
(*   - Dataset.flat_map and Dataset.interleave (SpecInterleave),            *)
(*   - Dataset.shuffle and ShuffleDataset (SpecShuffle),                    *)
(*   - Dataset.cache and CacheDataset (SpecCache),                          *)
(*   - Dataset.range and RangeDataset (SpecRange),                          *)
(*   - Dataset.shard, Dataset._enumerate and ZipDataset (SpecShard,         *)
(*     SpecPartition),                                                     *)
(*   - Dataset.zip (SpecZip) and Dataset.concatenate (SpecConcatenate),     *)
(*   - the passes of iterators over Dataset.from_generator (SpecPasses),    *)
(*   - MapDataset, FlatMapDataset and InterleaveDataset as nodes whose      *)
(*     schema comes from the user function (SpecDynamic).                   *)
(* The kernels behind gen_dataset_ops are not part of the Python file; the *)
(* definitions that describe them follow the design document.              *)
(***************************************************************************)
EXTENDS Integers, Sequences, FiniteSets, TLC

VARIABLES
  \* ---- Dataset._GeneratorState ----
  generator,    \* the sequence of elements one call of generator() yields
  flattened_types,   \* declared leaf dtypes of from_generator
  flattened_shapes,  \* declared leaf shapes of from_generator
  lock,         \* _lock: 0 when free, else the thread holding it
  next_id,      \* _next_id
  iterators,    \* _iterators: identifier -> handle of a generator object, 0 = no key
  cursor,       \* per generator object (handle): number of elements already yielded
  inv_id,       \* per generator object (handle): the identifier it was created for
  pc,           \* per thread: position inside get_next_id / generator_py_func
  ret,          \* per thread: local `ret` of get_next_id
  cur_id,       \* per thread: argument iterator_id of generator_py_func
  it,           \* per thread: the generator object returned by get_iterator
  issued,       \* history: per thread, the identifiers get_next_id returned to it
  log,          \* history: per identifier, the outcomes of the finished pulls
  raced,        \* history: identifiers on which two pulls were in flight at once
  npulls,       \* history: number of pulls started
  \* ---- Iterator ----
  it_kind,        \* "none" before creation, else how the iterator was created
  output_types,   \* Iterator._output_types
  output_shapes,  \* Iterator._output_shapes
  initializer,    \* Iterator._initializer: <<>> for None, else <<dataset>>
  init_ops,       \* datasets for which make_initializer returned an operation
  rt,             \* state of the iterator resource
  bound,          \* dataset the resource iterates: <<>> or <<dataset>>
  pos,            \* elements of the bound dataset already returned
  created,        \* history: <<types, shapes>> the iterator was created with
  it_log,         \* history: initializer runs and get_next results, in order
  last_mi,        \* history: <<>> or <<dataset, result>> of the last make_initializer
  last_prop,      \* history: result of the last read of `initializer`
  \* ---- PrefetchDataset and its stage ----
  pf_ds,          \* the PrefetchDataset object: _input_dataset, _buffer_size
  pf_next,        \* upstream elements the background loop has pulled, plus one
  pf_buffer,      \* the stage's queue
  pf_done,        \* the background loop has seen the end of the upstream
  pf_waiting,     \* the consumer is inside a pull
  pf_out,         \* history: elements the consumer received, in order
  pf_ended,       \* history: the consumer received the end of the sequence
  pf_worker,      \* the background loop: "running" or "stopped"
  \* ---- MapDataset, ParallelMapDataset and the map stage ----
  pm_ds,          \* the dataset object Dataset.map returned
  pm_next,        \* upstream elements the stage has pulled, plus one
  pm_window,      \* started invocations not yet delivered, in upstream order
  pm_done,        \* the stage has seen the end of the upstream
  pm_out,         \* history: elements the consumer received, in order
  pm_ended,       \* history: the consumer received the end of the sequence
  pm_overtook,    \* history: an invocation finished before an earlier one
  pm_worker,      \* the stage's workers: "running" or "stopped"
  \* ---- disposal of the iterator that owns the stages ----
  disposed,       \* the operation of Iterator.dispose_op has run
  dp_snapshot,    \* history: <<>> or the queue lengths when it ran
  \* ---- FlatMapDataset, InterleaveDataset and the interleave stage ----
  il_call,        \* arguments of Dataset.interleave: input, map_func, lengths
  il_ds,          \* the InterleaveDataset object
  il_st,          \* the stage's iterator: input position, open sub-iterators, indices
  il_out,         \* history: elements the consumer received, in order
  il_ended,       \* history: the consumer received the end of the sequence
  \* ---- ShuffleDataset and two iterators over it ----
  sf_call,        \* arguments of Dataset.shuffle: input, buffer_size, seed
  sf_ds,          \* the ShuffleDataset object
  sf_run,         \* per iterator: position, buffer, generator state, output, peak
  \* ---- CacheDataset and the passes over it ----
  ch_ds,          \* the CacheDataset object: _input_dataset, _filename
  ch_cache,       \* the elements the stage has recorded
  ch_complete,    \* a pass has recorded the upstream to its end
  ch_pass,        \* the current pass: mode, position, elements recorded, output
  ch_passes,      \* history: passes started
  ch_pulls,       \* history: pulls made on the upstream
  ch_pulls_done,  \* history: pulls made on the upstream when the record completed
  \* ---- RangeDataset and an iterator over it ----
  rg_args,        \* the arguments of Dataset.range
  rg_ds,          \* <<>> before the call, then <<RangeDataset object or the error raised>>
  rg_next,        \* the iterator's next value
  rg_out,         \* history: elements the consumer received, in order
  rg_ended,       \* history: how the pulls ended: "no", "end" or "InvalidArgument"
  \* ---- Dataset.shard and an iterator over its result ----
  sh_call,        \* the arguments of Dataset.shard: input, num_shards, index
  sh_ds,          \* <<>> before the call, then <<dataset or the error raised>>
  sh_it,          \* the iterator: next position of the enumeration, input position
  sh_out,         \* history: elements the consumer received, in order
  sh_ended,       \* history: how the pulls ended: "no", "end" or "InvalidArgument"
  zp_call,        \* the nested structure of datasets given to Dataset.zip
  zp_ds,          \* <<>> before the call, then <<the ZipDataset>>
  zp_pos,         \* the zip stage: the next position in each flattened input
  zp_out,         \* history: elements the consumer received, in order
  zp_pulls,       \* history: number of pulls made
  zp_ended,       \* history: a pull reported the end of the sequence
  cc_call,        \* the two datasets of a.concatenate(b)
  cc_ds,          \* <<>> before the call, then <<dataset or the error raised>>
  cc_types,       \* <<>>, then <<the output_types read from the dataset>>
  cc_shapes,      \* <<>>, then <<the output_shapes read from the dataset>>
  sp_call,        \* the upstream and num_shards all the shards are made with
  sp_ds,          \* <<>> before the calls, then the dataset of each index, in order
  sp_it,          \* per shard: its iterator
  sp_out,         \* history, per shard: elements its consumer received, in order
  sp_ended,       \* history, per shard: how its pulls ended
  dn_call,        \* the class of the node and the user function it is made with
  dn_node,        \* <<>> before the constructor ran, then <<the dataset object>>
  dn_calls,       \* number of invocations of the user function so far
  dn_first,       \* history: <<>>, then <<types, shapes>> of the object when the constructor returned
  dn_seen         \* history: the operations made on the object and the schema each saw

muxVars == <<generator, flattened_types, flattened_shapes, lock, next_id, iterators,
             cursor, inv_id, pc, ret, cur_id, it, issued, log, raced, npulls>>

iterVars == <<it_kind, output_types, output_shapes, initializer, init_ops, rt,
              bound, pos, created, it_log, last_mi, last_prop>>

pfVars == <<pf_ds, pf_next, pf_buffer, pf_done, pf_waiting, pf_out, pf_ended,
            pf_worker>>

pmVars == <<pm_ds, pm_next, pm_window, pm_done, pm_out, pm_ended, pm_overtook,
            pm_worker>>

dpVars == <<disposed, dp_snapshot>>

ilVars == <<il_call, il_ds, il_st, il_out, il_ended>>

sfVars == <<sf_call, sf_ds, sf_run>>

chVars == <<ch_ds, ch_cache, ch_complete, ch_pass, ch_passes, ch_pulls,
            ch_pulls_done>>

rgVars == <<rg_args, rg_ds, rg_next, rg_out, rg_ended>>

shVars == <<sh_call, sh_ds, sh_it, sh_out, sh_ended>>

zpVars == <<zp_call, zp_ds, zp_pos, zp_out, zp_pulls, zp_ended>>

ccVars == <<cc_call, cc_ds, cc_types, cc_shapes>>

spVars == <<sp_call, sp_ds, sp_it, sp_out, sp_ended>>

dnVars == <<dn_call, dn_node, dn_calls, dn_first, dn_seen>>

vars == <<muxVars, iterVars, pfVars, pmVars, dpVars, ilVars, sfVars, chVars, rgVars, shVars, zpVars, ccVars, spVars, dnVars>>
nonMuxVars == <<iterVars, pfVars, pmVars, dpVars, ilVars, sfVars, chVars, rgVars, shVars, zpVars, ccVars, spVars, dnVars>>
nonIterVars == <<muxVars, pfVars, pmVars, dpVars, ilVars, sfVars, chVars, rgVars, shVars, zpVars, ccVars, spVars, dnVars>>
nonPfVars == <<muxVars, iterVars, pmVars, dpVars, ilVars, sfVars, chVars, rgVars, shVars, zpVars, ccVars, spVars, dnVars>>
nonPmVars == <<muxVars, iterVars, pfVars, dpVars, ilVars, sfVars, chVars, rgVars, shVars, zpVars, ccVars, spVars, dnVars>>
nonDpVars == <<muxVars, iterVars, pfVars, pmVars, ilVars, sfVars, chVars, rgVars, shVars, zpVars, ccVars, spVars, dnVars>>
nonIlVars == <<muxVars, iterVars, pfVars, pmVars, dpVars, sfVars, chVars, rgVars, shVars, zpVars, ccVars, spVars, dnVars>>
nonSfVars == <<muxVars, iterVars, pfVars, pmVars, dpVars, ilVars, chVars, rgVars, shVars, zpVars, ccVars, spVars, dnVars>>
nonChVars == <<muxVars, iterVars, pfVars, pmVars, dpVars, ilVars, sfVars, rgVars, shVars, zpVars, ccVars, spVars, dnVars>>
nonRgVars == <<muxVars, iterVars, pfVars, pmVars, dpVars, ilVars, sfVars, chVars, shVars, zpVars, ccVars, spVars, dnVars>>
nonShVars == <<muxVars, iterVars, pfVars, pmVars, dpVars, ilVars, sfVars, chVars, rgVars, zpVars, ccVars, spVars, dnVars>>
nonZpVars == <<muxVars, iterVars, pfVars, pmVars, dpVars, ilVars, sfVars, chVars, rgVars, shVars, ccVars, spVars, dnVars>>
nonCcVars == <<muxVars, iterVars, pfVars, pmVars, dpVars, ilVars, sfVars, chVars, rgVars, shVars, zpVars, spVars, dnVars>>
nonSpVars == <<muxVars, iterVars, pfVars, pmVars, dpVars, ilVars, sfVars, chVars, rgVars, shVars, zpVars, ccVars, dnVars>>
nonDnVars == <<muxVars, iterVars, pfVars, pmVars, dpVars, ilVars, sfVars, chVars, rgVars, shVars, zpVars, ccVars, spVars>>

\* ---------------------------------------------------------------- bounds
NumThreads == 2   \* concurrent callers
MaxIds == 2       \* identifiers issued where pulls are modelled
MaxIssued == 5    \* identifiers issued where only get_next_id is modelled
MaxGenLen == 2    \* longest generator
MaxPulls == 4     \* calls of generator_py_func
MaxDsLen == 1     \* elements of the longest dataset an iterator is bound to
MaxIterOps == 5   \* initializer runs and get_next calls on the iterator
MaxInitOps == 1   \* initializer operations kept from make_initializer
MaxUpstream == 3  \* elements of the longest upstream of a prefetch
MaxBuffer == 2    \* largest buffer_size of a prefetch
MaxParallel == 2  \* largest num_parallel_calls of a map
MaxCycle == 2     \* largest cycle_length of an interleave
MaxBlock == 2     \* largest block_length of an interleave
MaxPasses == 3    \* passes over a cache
MaxRange == 5     \* largest start or stop of a range
MaxShards == 3    \* largest num_shards of a shard
MaxSeed == 1      \* largest seed given to a shuffle

Threads == 1..NumThreads
Ids == 0..(MaxIds - 1)

\* ------------------------------------------------ dtypes and shapes
\* A shape has an unknown rank (TensorShape(None)) or a sequence of dimensions,
\* each a non-negative size or Unknown (None).
Unknown == -1
UnknownRank == [known |-> FALSE, dims |-> <<>>]
Shape(d) == [known |-> TRUE, dims |-> d]

\* DType.as_numpy_dtype: the numpy type of a tf dtype.
as_numpy_dtype(dt) ==
  CASE dt = "tf.int64" -> "np.int64"
    [] dt = "tf.float32" -> "np.float32"
    [] dt = "tf.string" -> "np.object"
    [] OTHER -> "np.void"

\* Dimension.is_compatible_with
DimCompatible(a, b) == a = Unknown \/ b = Unknown \/ a = b

\* TensorShape.is_compatible_with
is_compatible_with(s, t) ==
  \/ ~s.known
  \/ ~t.known
  \/ /\ Len(s.dims) = Len(t.dims)
     /\ \A i \in 1..Len(s.dims) : DimCompatible(s.dims[i], t.dims[i])

\* ------------------------------------------------ generator_py_func checks
\* Lines 614-624: the loop over zip(ret_arrays, flattened_types,
\* flattened_shapes); the first failing check raises.
RECURSIVE CheckFrom(_, _, _, _)
CheckFrom(arrays, types, shapes, i) ==
  IF i > Len(arrays) \/ i > Len(types) \/ i > Len(shapes) THEN "ok"
  ELSE IF arrays[i].dtype # as_numpy_dtype(types[i]) THEN "TypeError"
  ELSE IF ~is_compatible_with(shapes[i], arrays[i].shape) THEN "ValueError"
  ELSE CheckFrom(arrays, types, shapes, i + 1)

CheckElement(arrays, types, shapes) == CheckFrom(arrays, types, shapes, 1)

\* ------------------------------------------------ inputs
\* Converted components a generator may yield (ret_arrays entries).
Arr(dt, sh) == [dtype |-> dt, shape |-> sh]
GoodA == Arr("np.int64", Shape(<<>>))
GoodB == Arr("np.float32", Shape(<<2>>))
BadTypeA == Arr("np.float32", Shape(<<>>))
BadShapeA == Arr("np.int64", Shape(<<3>>))
BadTypeB == Arr("np.int64", Shape(<<2>>))
BadShapeB == Arr("np.float32", Shape(<<3, 2>>))

\* Elements: a value tag and the flattened converted components.
Elem(v, comps) == [val |-> v, arrays |-> comps]
ElementChoices ==
  { <<GoodA, GoodB>>, <<BadTypeA, GoodB>>, <<GoodA, BadShapeB>>,
    <<BadShapeA, BadTypeB>> }

RECURSIVE SeqsUpTo(_, _)
SeqsUpTo(S, n) ==
  IF n = 0 THEN { <<>> }
  ELSE LET shorter == SeqsUpTo(S, n - 1)
       IN shorter \cup { Append(s, x) : s \in { q \in shorter : Len(q) = n - 1 }, x \in S }

\* The k-th element of a generator gets value tag k.
Tagged(comps) == [k \in 1..Len(comps) |-> Elem(k, comps[k])]
GeneratorChoices == { Tagged(c) : c \in SeqsUpTo(ElementChoices, MaxGenLen) }
GoodGenerators == { Tagged(c) : c \in SeqsUpTo({ <<GoodA, GoodB>> }, MaxGenLen) }
DeclaredShapes == << Shape(<<>>), Shape(<<2>>) >>
ShapeChoices ==
  { DeclaredShapes, << Shape(<<>>), Shape(<<Unknown>>) >>, << Shape(<<>>), UnknownRank >> }

\* A log entry: what one call of generator_py_func returned or raised, with the
\* values the generator yielded in that call (NoValue when it yielded nothing).
NoValue == [val |-> 0, arrays |-> <<>>]
Outcome(k, v) == [kind |-> k, values |-> v]

\* ------------------------------------------------ _GeneratorState
\* __init__ (lines 493-497), for a generator among `gens` and declared shapes
\* among `shapes`
InitMux(gens, shapes) ==
  /\ generator \in gens
  /\ flattened_types = <<"tf.int64", "tf.float32">>
  /\ flattened_shapes \in shapes
  /\ lock = 0
  /\ next_id = 0
  /\ iterators = [i \in Ids |-> 0]
  /\ cursor = <<>>
  /\ inv_id = <<>>
  /\ pc = [t \in Threads |-> "idle"]
  /\ ret = [t \in Threads |-> 0]
  /\ cur_id = [t \in Threads |-> 0]
  /\ it = [t \in Threads |-> 0]
  /\ issued = [t \in Threads |-> <<>>]
  /\ log = [i \in Ids |-> <<>>]
  /\ raced = {}
  /\ npulls = 0

LockAlwaysAvailable == TRUE
\* `with self._lock:` (line 500) can be entered
LockAvailable == lock = 0

\* get_next_id, lines 500-501: acquire the lock and read _next_id
GetNextIdEnter(t) ==
  /\ pc[t] = "idle"
  /\ LockAvailable
  /\ lock' = t
  /\ ret' = [ret EXCEPT ![t] = next_id]
  /\ pc' = [pc EXCEPT ![t] = "incr"]
  /\ UNCHANGED nonMuxVars
  /\ UNCHANGED <<generator, flattened_types, flattened_shapes, next_id, iterators,
                 cursor, inv_id, cur_id, it, issued, log, raced, npulls>>

\* get_next_id, lines 502-503: increment, release, return ret
GetNextIdLeave(t) ==
  /\ pc[t] = "incr"
  /\ next_id' = next_id + 1
  /\ lock' = IF lock = t THEN 0 ELSE lock
  /\ issued' = [issued EXCEPT ![t] = Append(@, ret[t])]
  /\ ret' = [ret EXCEPT ![t] = 0]
  /\ pc' = [pc EXCEPT ![t] = "idle"]
  /\ UNCHANGED nonMuxVars
  /\ UNCHANGED <<generator, flattened_types, flattened_shapes, iterators,
                 cursor, inv_id, cur_id, it, log, raced, npulls>>

\* Some pull by another thread on `id` is in flight
PullInFlight(t, id) ==
  \E u \in Threads :
    u # t /\ cur_id[u] = id /\ pc[u] \in {"lookup", "factory", "next", "running", "completed"}

\* generator_py_func (line 593) is entered with an identifier get_next_id returned
PullStartWithin(t, id, limit) ==
  /\ pc[t] = "idle"
  /\ npulls < limit
  /\ \E u \in Threads : \E k \in 1..Len(issued[u]) : issued[u][k] = id
  /\ cur_id' = [cur_id EXCEPT ![t] = id]
  /\ pc' = [pc EXCEPT ![t] = "lookup"]
  /\ raced' = IF PullInFlight(t, id) THEN raced \cup {id} ELSE raced
  /\ npulls' = npulls + 1
  /\ UNCHANGED nonMuxVars
  /\ UNCHANGED <<generator, flattened_types, flattened_shapes, lock, next_id,
                 iterators, cursor, inv_id, ret, it, issued, log>>

PullStart(t, id) == PullStartWithin(t, id, MaxPulls)

\* get_iterator (line 506): defaultdict lookup; a missing key goes to the factory
GetIteratorLookup(t) ==
  /\ pc[t] = "lookup"
  /\ IF iterators[cur_id[t]] # 0
     THEN /\ it' = [it EXCEPT ![t] = iterators[cur_id[t]]]
          /\ pc' = [pc EXCEPT ![t] = "next"]
     ELSE /\ it' = it
          /\ pc' = [pc EXCEPT ![t] = "factory"]
  /\ UNCHANGED nonMuxVars
  /\ UNCHANGED <<generator, flattened_types, flattened_shapes, lock, next_id,
                 iterators, cursor, inv_id, ret, cur_id, issued, log, raced, npulls>>

RegistryAfterMissingShared(reg, id, h) == [i \in DOMAIN reg |-> h]
\* The registry after the default factory (line 497) ran for a missing key:
\* iter(generator()) is a new generator object, stored under the key.
RegistryAfterMissing(reg, id, h) == [reg EXCEPT ![id] = h]

GetIteratorMissing(t) ==
  /\ pc[t] = "factory"
  /\ LET h == Len(cursor) + 1
     IN /\ cursor' = Append(cursor, 0)
        /\ inv_id' = Append(inv_id, cur_id[t])
        /\ iterators' = RegistryAfterMissing(iterators, cur_id[t], h)
        /\ it' = [it EXCEPT ![t] = h]
  /\ pc' = [pc EXCEPT ![t] = "next"]
  /\ UNCHANGED nonMuxVars
  /\ UNCHANGED <<generator, flattened_types, flattened_shapes, lock, next_id,
                 ret, cur_id, issued, log, raced, npulls>>

PyFuncOutcomeFirstOnly(values) ==
  IF values.val = 1
  THEN LET c == CheckElement(values.arrays, flattened_types, flattened_shapes)
       IN Outcome(IF c = "ok" THEN "element" ELSE c, values)
  ELSE Outcome("element", values)
\* What generator_py_func returns or raises for the yielded values (lines 605-626)
PyFuncOutcome(values) ==
  LET c == CheckElement(values.arrays, flattened_types, flattened_shapes)
  IN Outcome(IF c = "ok" THEN "element" ELSE c, values)

RegistryAfterOutcomeDropRejected(reg, id, outcome) ==
  IF outcome.kind \in {"TypeError", "ValueError"} THEN [reg EXCEPT ![id] = 0] ELSE reg
\* The registry after generator_py_func returned or raised for yielded values
\* (lines 601-626): nothing there touches _iterators
RegistryAfterOutcome(reg, id, outcome) == reg

\* generator() is a call of a generator function, so the object in the registry
\* is a generator object: while one thread is inside next() on it, the body of
\* the user's generator is running and the thread can be descheduled there.
\* The generator object h is executing: some thread is inside next() on it
Executing(h) == \E u \in Threads : pc[u] = "running" /\ it[u] = h

\* What next() raises on a generator object that is executing: ValueError
\* "generator already executing". It is not StopIteration, so it leaves
\* generator_py_func (lines 595-599) as it is.
AlreadyExecuting == "ValueError(generator already executing)"

\* next(...) is called on the generator object (line 596): the body of the
\* generator is resumed, or the call raises at once when the body is running
NextEnter(t) ==
  /\ pc[t] = "next"
  /\ IF Executing(it[t])
     THEN /\ log' = [log EXCEPT ![cur_id[t]] = Append(@, Outcome(AlreadyExecuting, NoValue))]
          /\ pc' = [pc EXCEPT ![t] = "idle"]
          /\ cur_id' = [cur_id EXCEPT ![t] = 0]
          /\ it' = [it EXCEPT ![t] = 0]
     ELSE /\ UNCHANGED <<log, cur_id, it>>
          /\ pc' = [pc EXCEPT ![t] = "running"]
  /\ UNCHANGED nonMuxVars
  /\ UNCHANGED <<generator, flattened_types, flattened_shapes, lock, next_id,
                 iterators, cursor, inv_id, ret, issued, raced, npulls>>

\* next(...) returns a value or raises StopIteration (line 596); a value is
\* then converted and checked (lines 601-626)
NextValue(t) ==
  /\ pc[t] = "running"
  /\ IF cursor[it[t]] < Len(generator)
     THEN /\ cursor' = [cursor EXCEPT ![it[t]] = @ + 1]
          /\ log' = [log EXCEPT ![cur_id[t]] =
                        Append(@, PyFuncOutcome(generator[cursor[it[t]] + 1]))]
          /\ iterators' = RegistryAfterOutcome(iterators, cur_id[t],
                             PyFuncOutcome(generator[cursor[it[t]] + 1]))
          /\ pc' = [pc EXCEPT ![t] = "idle"]
          /\ cur_id' = [cur_id EXCEPT ![t] = 0]
          /\ it' = [it EXCEPT ![t] = 0]
     ELSE /\ UNCHANGED <<cursor, log, cur_id, it, iterators>>
          /\ pc' = [pc EXCEPT ![t] = "completed"]
  /\ UNCHANGED nonMuxVars
  /\ UNCHANGED <<generator, flattened_types, flattened_shapes, lock, next_id,
                 inv_id, ret, issued, raced, npulls>>

\* iterator_completed (line 509): del self._iterators[iterator_id]
RegistryAfterCompleted(reg, id) == [reg EXCEPT ![id] = 0]

\* except StopIteration (lines 597-599); `del` of a missing key raises KeyError
IteratorCompleted(t) ==
  /\ pc[t] = "completed"
  /\ IF iterators[cur_id[t]] # 0
     THEN /\ iterators' = RegistryAfterCompleted(iterators, cur_id[t])
          /\ log' = [log EXCEPT ![cur_id[t]] = Append(@, Outcome("StopIteration", NoValue))]
     ELSE /\ iterators' = iterators
          /\ log' = [log EXCEPT ![cur_id[t]] = Append(@, Outcome("KeyError", NoValue))]
  /\ pc' = [pc EXCEPT ![t] = "idle"]
  /\ cur_id' = [cur_id EXCEPT ![t] = 0]
  /\ it' = [it EXCEPT ![t] = 0]
  /\ UNCHANGED nonMuxVars
  /\ UNCHANGED <<generator, flattened_types, flattened_shapes, lock, next_id,
                 cursor, inv_id, ret, issued, raced, npulls>>

\* One step of a call of generator_py_func by thread t
PullStep(t) ==
  \/ \E id \in Ids : PullStart(t, id)
  \/ GetIteratorLookup(t)
  \/ GetIteratorMissing(t)
  \/ NextEnter(t)
  \/ NextValue(t)
  \/ IteratorCompleted(t)

\* ------------------------------------------------ passes over from_generator
\* Caller t is an iterator over the dataset from_generator returns (line 665):
\* id_dataset.flat_map(flat_map_fn). A pass evaluates id_dataset, whose one
\* element is the result of get_next_id (lines 563-577, 653), and then maps
\* generator_py_func over that identifier repeated without end (lines 639-648)
\* until a pull raises StopIteration.
\* The element of id_dataset in the current pass of t: what the last call of
\* get_next_id by t returned
LastIssued(t) == issued[t][Len(issued[t])]

PassIdFirst(t) == issued[t][1]
\* The identifier the pulls of the current pass of t carry: flat_map_fn is given
\* the element of id_dataset and repeats it (lines 639-642)
PassId(t) == LastIssued(t)

\* The current pass of t has ended: a pull of the pass raised StopIteration
PassEnded(t) ==
  /\ issued[t] # <<>>
  /\ log[LastIssued(t)] # <<>>
  /\ log[LastIssued(t)][Len(log[LastIssued(t)])].kind = "StopIteration"

\* A pass begins (the iterator is initialized, or repeat starts the next pass):
\* id_dataset is evaluated
PassBegin(t) ==
  /\ issued[t] = <<>> \/ PassEnded(t)
  /\ next_id < MaxIds
  /\ GetNextIdEnter(t)

\* The pulls a specification of passes can make at most
MaxPassPulls == MaxIds * (MaxGenLen + 1)

\* The next element of the pass is pulled
PassPull(t) ==
  /\ issued[t] # <<>>
  /\ ~PassEnded(t)
  /\ PullStartWithin(t, PassId(t), MaxPassPulls)

\* One step of the iterator t
PassStep(t) ==
  \/ PassBegin(t)
  \/ GetNextIdLeave(t)
  \/ PassPull(t)
  \/ GetIteratorLookup(t)
  \/ GetIteratorMissing(t)
  \/ NextEnter(t)
  \/ NextValue(t)
  \/ IteratorCompleted(t)

\* ------------------------------------------------ nested structures
\* data.util.nest: a structure is a leaf or a tuple of structures.
Leaf(x) == [tag |-> "leaf", v |-> x]
Tuple(xs) == [tag |-> "tuple", items |-> xs]

\* nest.assert_same_structure does not raise
RECURSIVE SameStructure(_, _)
SameStructure(a, b) ==
  IF a.tag = "leaf" \/ b.tag = "leaf" THEN a.tag = b.tag
  ELSE /\ Len(a.items) = Len(b.items)
       /\ \A i \in 1..Len(a.items) : SameStructure(a.items[i], b.items[i])

\* nest.flatten
RECURSIVE Flatten(_)
RECURSIVE FlattenAll(_)
Flatten(a) == IF a.tag = "leaf" THEN <<a.v>> ELSE FlattenAll(a.items)
FlattenAll(xs) == IF xs = <<>> THEN <<>> ELSE Flatten(Head(xs)) \o FlattenAll(Tail(xs))

\* nest.map_structure(lambda _: TensorShape(None), output_types)
RECURSIVE UnknownShapesLike(_)
UnknownShapesLike(a) ==
  IF a.tag = "leaf" THEN Leaf(UnknownRank)
  ELSE Tuple([i \in 1..Len(a.items) |-> UnknownShapesLike(a.items[i])])

\* ------------------------------------------------ datasets an iterator meets
\* A dataset is known to the iterator by its output_types, its output_shapes and
\* (to the runtime) the number of elements it yields.
Dataset(ty, sh, n) == [types |-> ty, shapes |-> sh, len |-> n]
Int64 == Leaf("tf.int64")
Float32 == Leaf("tf.float32")
SchemaChoices ==
  { <<Int64, Leaf(Shape(<<2>>))>>,
    <<Int64, Leaf(Shape(<<Unknown>>))>>,
    <<Int64, Leaf(Shape(<<3>>))>>,
    <<Int64, Leaf(Shape(<<2, 2>>))>>,
    <<Float32, Leaf(Shape(<<2>>))>>,
    <<Tuple(<<Int64, Float32>>), Tuple(<<Leaf(Shape(<<2>>)), Leaf(UnknownRank)>>)>>,
    <<Tuple(<<Int64, Tuple(<<Float32>>)>>),
      Tuple(<<Leaf(Shape(<<2>>)), Tuple(<<Leaf(UnknownRank)>>)>>)>> }
DatasetChoices ==
  { Dataset(sc[1], sc[2], MaxDsLen) : sc \in SchemaChoices }
    \cup { Dataset(Int64, Leaf(Shape(<<2>>)), 0) }
NoStructure == Leaf("none")

\* ------------------------------------------------ Iterator
\* An event of the iterator's log: its creation as a one-shot iterator over a
\* dataset of n elements or on an existing resource that has n elements left, a
\* run of an initializer for a dataset of n elements, or a get_next with its
\* result (n: the element returned)
Event(o, r, k) == [op |-> o, res |-> r, n |-> k]

InitIter ==
  /\ it_kind = "none"
  /\ output_types = NoStructure
  /\ output_shapes = NoStructure
  /\ initializer = <<>>
  /\ init_ops = {}
  /\ rt = "NoResource"
  /\ bound = <<>>
  /\ pos = 0
  /\ created = <<>>
  /\ it_log = <<>>
  /\ last_mi = <<>>
  /\ last_prop = "unread"

\* Iterator.from_dataset (lines 88-99): a resource with the dataset's structure,
\* an initializer for the dataset, not yet run
FromDataset(d) ==
  /\ it_kind = "none"
  /\ it_kind' = "from_dataset"
  /\ output_types' = d.types
  /\ output_shapes' = d.shapes
  /\ initializer' = <<d>>
  /\ rt' = "BoundUninitialized"
  /\ bound' = <<>>
  /\ created' = <<d.types, d.shapes>>
  /\ UNCHANGED <<init_ops, pos, it_log, last_mi, last_prop>>
  /\ UNCHANGED nonIterVars

\* Iterator.from_structure (lines 165-180); `sh` is <<>> for output_shapes=None.
\* nest.assert_same_structure (line 172) raises when the structures differ.
FromStructure(ty, sh) ==
  /\ it_kind = "none"
  /\ LET shapes == IF sh = <<>> THEN UnknownShapesLike(ty) ELSE sh[1]
     IN /\ SameStructure(ty, shapes)
        /\ it_kind' = "from_structure"
        /\ output_types' = ty
        /\ output_shapes' = shapes
        /\ created' = <<ty, shapes>>
  /\ initializer' = <<>>
  /\ rt' = "Unbound"
  /\ bound' = <<>>
  /\ UNCHANGED <<init_ops, pos, it_log, last_mi, last_prop>>
  /\ UNCHANGED nonIterVars

\* Dataset.make_one_shot_iterator (lines 407-418): no initializer; the resource
\* makes the dataset itself when it is first used
MakeOneShotIterator(d) ==
  /\ it_kind = "none"
  /\ it_kind' = "one_shot"
  /\ output_types' = d.types
  /\ output_shapes' = d.shapes
  /\ initializer' = <<>>
  /\ rt' = "Unbound"
  /\ bound' = <<d>>
  /\ created' = <<d.types, d.shapes>>
  /\ it_log' = Append(it_log, Event("create", "one_shot", d.len))
  /\ UNCHANGED <<init_ops, pos, last_mi, last_prop>>
  /\ UNCHANGED nonIterVars

\* The resource another iterator made and its string_handle() names, as that
\* iterator left it: [rt, bound, pos]
Resource(state, b, p) == [rt |-> state, bound |-> b, pos |-> p]
\* The dataset the other iterator was made for
HandleDataset == Dataset(Int64, Leaf(Shape(<<2>>)), MaxDsLen)
\* The resources a handle can name: of a from_structure iterator, of an unused
\* one-shot iterator, and of an initialized iterator at each position, the
\* last element returned included
HandleChoices ==
  { Resource("Unbound", <<>>, 0),
    Resource("Unbound", <<HandleDataset>>, 0) }
    \cup { Resource("Running", <<HandleDataset>>, p) : p \in 0..HandleDataset.len }
\* The structures the iterators of a handle are declared with: ones the
\* elements of HandleDataset fit (`sh` is <<>> for output_shapes=None), and
\* one whose output_shapes has another structure than its output_types
HandleSchemaChoices ==
  { <<Int64, <<Leaf(Shape(<<Unknown>>))>>>>,
    <<Int64, <<>>>>,
    <<Int64, <<Tuple(<<Leaf(Shape(<<2>>)), Leaf(UnknownRank)>>)>>>> }
\* The elements the resource h still has to return
Remaining(h) ==
  IF h.bound = <<>> THEN 0 ELSE h.bound[1].len - h.pos

\* Iterator.from_string_handle (lines 226-238): a second Iterator on the
\* resource h that exists already, with a declared structure of its own and no
\* initializer; nest.assert_same_structure (line 233) raises when the
\* structures differ. Nothing in the method compares the declared structure
\* with the resource.
FromStringHandle(h, ty, sh) ==
  /\ it_kind = "none"
  /\ LET shapes == IF sh = <<>> THEN UnknownShapesLike(ty) ELSE sh[1]
     IN /\ SameStructure(ty, shapes)
        /\ it_kind' = "from_string_handle"
        /\ output_types' = ty
        /\ output_shapes' = shapes
        /\ created' = <<ty, shapes>>
  /\ initializer' = <<>>
  /\ rt' = h.rt
  /\ bound' = h.bound
  /\ pos' = h.pos
  /\ it_log' = Append(it_log, Event("create", "from_string_handle", Remaining(h)))
  /\ UNCHANGED <<init_ops, last_mi, last_prop>>
  /\ UNCHANGED nonIterVars

\* Iterator.initializer (lines 250-255)
InitializerProperty == IF initializer # <<>> THEN "operation" ELSE "ValueError"

ReadInitializer ==
  /\ it_kind # "none"
  /\ last_prop' = InitializerProperty
  /\ UNCHANGED <<it_kind, output_types, output_shapes, initializer, init_ops, rt,
                 bound, pos, created, it_log, last_mi>>
  /\ UNCHANGED nonIterVars

\* The dtype loop of make_initializer (lines 275-280) finds a difference
DtypesDiffer(a, b) ==
  \E i \in 1..Len(a) : i <= Len(b) /\ a[i] # b[i]

ShapesDifferExact(a, b) ==
  \E i \in 1..Len(a) : i <= Len(b) /\ a[i] # b[i]
\* The shape loop of make_initializer (lines 281-287) finds an incompatible pair
ShapesIncompatible(a, b) ==
  \E i \in 1..Len(a) : i <= Len(b) /\ ~is_compatible_with(a[i], b[i])

\* Iterator.make_initializer, lines 272-290: what the call raises, or "ok"
MakeInitializerResult(types, shapes, d) ==
  IF ~SameStructure(types, d.types) THEN "StructureError"
  ELSE IF ~SameStructure(shapes, d.shapes) THEN "StructureError"
  ELSE IF DtypesDiffer(Flatten(types), Flatten(d.types)) THEN "TypeError"
  ELSE IF ShapesIncompatible(Flatten(shapes), Flatten(d.shapes)) THEN "TypeError"
  ELSE "ok"

SchemaAdoptedFromDataset(types, shapes, d) == <<d.types, d.shapes>>
\* Iterator.make_initializer, lines 257-290: the iterator's _output_types and
\* _output_shapes after the call (the method assigns to neither)
SchemaAfterMakeInitializer(types, shapes, d) == <<types, shapes>>

MakeInitializer(d) ==
  /\ it_kind # "none"
  /\ LET r == MakeInitializerResult(output_types, output_shapes, d)
         after == SchemaAfterMakeInitializer(output_types, output_shapes, d)
     IN /\ last_mi' = <<d, r>>
        /\ IF r = "ok"
           THEN /\ \/ d \in init_ops
                   \/ Cardinality(init_ops) < MaxInitOps
                /\ init_ops' = init_ops \cup {d}
                /\ output_types' = after[1]
                /\ output_shapes' = after[2]
           ELSE UNCHANGED <<init_ops, output_types, output_shapes>>
  /\ UNCHANGED <<it_kind, initializer, rt, bound, pos, created, it_log, last_prop>>
  /\ UNCHANGED nonIterVars

\* The resource after a make_iterator operation for dataset d ran on it
\* (gen_dataset_ops.make_iterator): bound to d, at its first element
RunInitializer(d) ==
  /\ it_kind # "none"
  /\ Len(it_log) < MaxIterOps
  /\ d \in init_ops \/ initializer = <<d>>
  /\ rt' = "Running"
  /\ bound' = <<d>>
  /\ pos' = 0
  /\ it_log' = Append(it_log, Event("init", "ok", d.len))
  /\ UNCHANGED <<it_kind, output_types, output_shapes, initializer, init_ops,
                 created, last_mi, last_prop>>
  /\ UNCHANGED nonIterVars

KernelGetNextRestarting(state, b, p) ==
  IF state = "Exhausted" /\ b # <<>> /\ b[1].len > 0
  THEN [res |-> "element", n |-> 1, rt |-> "Running", pos |-> 1]
  ELSE IF state \in {"Running", "Exhausted"}
  THEN IF state = "Running" /\ p < b[1].len
       THEN [res |-> "element", n |-> p + 1, rt |-> "Running", pos |-> p + 1]
       ELSE [res |-> "OutOfRange", n |-> 0, rt |-> "Exhausted", pos |-> p]
  ELSE [res |-> "NotInitialized", n |-> 0, rt |-> state, pos |-> p]
\* gen_dataset_ops.iterator_get_next on a resource in `state`, bound to b, at
\* position p: the result and the resource's next state
KernelGetNext(state, b, p) ==
  IF state \in {"Running", "Exhausted"}
  THEN IF state = "Running" /\ p < b[1].len
       THEN [res |-> "element", n |-> p + 1, rt |-> "Running", pos |-> p + 1]
       ELSE [res |-> "OutOfRange", n |-> 0, rt |-> "Exhausted", pos |-> p]
  ELSE [res |-> "NotInitialized", n |-> 0, rt |-> state, pos |-> p]

\* gen_dataset_ops.one_shot_iterator: the resource initializes itself from its
\* dataset factory when it is first used. The resource of a one-shot iterator
\* is the one that holds a dataset (b) before any initializer ran on it; it is
\* such a resource also for an iterator made from its string handle.
OneShotState(b, state) ==
  IF b # <<>> /\ state = "Unbound" THEN "Running" ELSE state

\* Iterator.get_next (lines 301-307)
GetNext ==
  /\ it_kind # "none"
  /\ Len(it_log) < MaxIterOps
  /\ LET r == KernelGetNext(OneShotState(bound, rt), bound, pos)
     IN /\ rt' = r.rt
        /\ pos' = r.pos
        /\ it_log' = Append(it_log, Event("get_next", r.res, r.n))
  /\ UNCHANGED <<it_kind, output_types, output_shapes, initializer, init_ops,
                 bound, created, last_mi, last_prop>>
  /\ UNCHANGED nonIterVars

TypeStructures == { sc[1] : sc \in SchemaChoices }
ShapeStructures == { sc[2] : sc \in SchemaChoices }

NextIter ==
  \/ \E d \in DatasetChoices : FromDataset(d)
  \/ \E ty \in TypeStructures : \E sh \in {<<>>} \cup { <<x>> : x \in ShapeStructures } :
       FromStructure(ty, sh)
  \/ \E d \in DatasetChoices : MakeOneShotIterator(d)
  \/ \E h \in HandleChoices : \E sc \in HandleSchemaChoices :
       FromStringHandle(h, sc[1], sc[2])
  \/ ReadInitializer
  \/ \E d \in DatasetChoices : MakeInitializer(d)
  \/ \E d \in DatasetChoices : RunInitializer(d)
  \/ GetNext

\* ------------------------------------------------ disposal signal
CancelledNever == FALSE
\* The stop signal the stages of a disposed iterator see
Cancelled == disposed

InitDisposal ==
  /\ disposed = FALSE
  /\ dp_snapshot = <<>>

\* ------------------------------------------------ PrefetchDataset
\* PrefetchDataset.__init__ (lines 1872-1876)
PrefetchDataset(input_dataset, buffer_size) ==
  [_input_dataset |-> input_dataset, _buffer_size |-> buffer_size]

\* Dataset.prefetch (line 773)
prefetch(input_dataset, buffer_size) == PrefetchDataset(input_dataset, buffer_size)

KernelBufferSizeOffByOne(ds) == ds._buffer_size + 1
\* make_dataset_resource (lines 1878-1883): the buffer_size handed to the stage
KernelBufferSize(ds) == ds._buffer_size

\* make_dataset_resource (lines 1878-1883): the upstream handed to the stage
KernelInput(ds) == ds._input_dataset

UpstreamChoices == SeqsUpTo({1, 2}, MaxUpstream)

InitPrefetch(inputs, sizes) ==
  /\ pf_ds \in { prefetch(u, b) : u \in inputs, b \in sizes }
  /\ pf_next = 1
  /\ pf_buffer = <<>>
  /\ pf_done = FALSE
  /\ pf_waiting = FALSE
  /\ pf_out = <<>>
  /\ pf_ended = FALSE
  /\ pf_worker = "running"

\* The stage's queue after the background loop stored element x
Enqueue(q, x) == Append(q, x)

DequeueNewest(q) == [elem |-> q[Len(q)], rest |-> SubSeq(q, 1, Len(q) - 1)]
\* The element the consumer takes from the queue, and the queue left
Dequeue(q) == [elem |-> Head(q), rest |-> Tail(q)]

\* The background loop has room to pull from the upstream
HasRoom == Len(pf_buffer) < KernelBufferSize(pf_ds)

\* Background loop: pull the next upstream element into the queue
PrefetchProduce ==
  /\ ~Cancelled
  /\ ~pf_done
  /\ HasRoom
  /\ pf_next <= Len(KernelInput(pf_ds))
  /\ pf_buffer' = Enqueue(pf_buffer, KernelInput(pf_ds)[pf_next])
  /\ pf_next' = pf_next + 1
  /\ UNCHANGED <<pf_worker, pf_ds, pf_done, pf_waiting, pf_out, pf_ended>>
  /\ UNCHANGED nonPfVars

\* Background loop: the pull finds the upstream exhausted
PrefetchUpstreamEnd ==
  /\ ~Cancelled
  /\ ~pf_done
  /\ HasRoom
  /\ pf_next > Len(KernelInput(pf_ds))
  /\ pf_done' = TRUE
  /\ UNCHANGED <<pf_worker, pf_ds, pf_next, pf_buffer, pf_waiting, pf_out, pf_ended>>
  /\ UNCHANGED nonPfVars

\* Consumer: a pull begins
ConsumerPull ==
  /\ ~Cancelled
  /\ ~pf_waiting
  /\ ~pf_ended
  /\ pf_waiting' = TRUE
  /\ UNCHANGED <<pf_worker, pf_ds, pf_next, pf_buffer, pf_done, pf_out, pf_ended>>
  /\ UNCHANGED nonPfVars

\* Consumer: the pull returns the element at the head of the queue
ConsumerTake ==
  /\ ~Cancelled
  /\ pf_waiting
  /\ pf_buffer # <<>>
  /\ pf_out' = Append(pf_out, Dequeue(pf_buffer).elem)
  /\ pf_buffer' = Dequeue(pf_buffer).rest
  /\ pf_waiting' = FALSE
  /\ UNCHANGED <<pf_worker, pf_ds, pf_next, pf_done, pf_ended>>
  /\ UNCHANGED nonPfVars

\* Consumer: the pull returns the end of the sequence
ConsumerEnd ==
  /\ ~Cancelled
  /\ pf_waiting
  /\ pf_buffer = <<>>
  /\ pf_done
  /\ pf_ended' = TRUE
  /\ pf_waiting' = FALSE
  /\ UNCHANGED <<pf_worker, pf_ds, pf_next, pf_buffer, pf_done, pf_out>>
  /\ UNCHANGED nonPfVars

\* The background loop sees the stop signal, releases the queue and exits
PrefetchWorkerStop ==
  /\ Cancelled
  /\ pf_worker = "running"
  /\ pf_worker' = "stopped"
  /\ pf_buffer' = <<>>
  /\ UNCHANGED <<pf_ds, pf_next, pf_done, pf_waiting, pf_out, pf_ended>>
  /\ UNCHANGED nonPfVars

NextPrefetch ==
  \/ PrefetchProduce
  \/ PrefetchUpstreamEnd
  \/ ConsumerPull
  \/ ConsumerTake
  \/ ConsumerEnd

InitPrefetchIdle == InitPrefetch({ <<>> }, { 1 })

\* ------------------------------------------------ MapDataset, ParallelMapDataset
MapFuncs == { "double", "square" }

\* The user's map_func, a pure function of one element
ApplyMapFunc(f, x) == IF f = "double" THEN 2 * x ELSE x * x

\* MapDataset.__init__ (lines 1626-1672)
MapDataset(input_dataset, map_func) ==
  [kind |-> "MapDataset", _input_dataset |-> input_dataset,
   _map_func |-> map_func, _num_parallel_calls |-> <<>>]

\* ParallelMapDataset.__init__ (lines 1694-1699)
ParallelMapDataset(input_dataset, map_func, num_parallel_calls) ==
  [kind |-> "ParallelMapDataset", _input_dataset |-> input_dataset,
   _map_func |-> map_func, _num_parallel_calls |-> <<num_parallel_calls>>]

\* Dataset.map (lines 1011-1020); <<>> stands for an argument left None
map(self, map_func, num_threads, output_buffer_size, num_parallel_calls) ==
  LET dataset == IF num_threads = <<>> /\ num_parallel_calls = <<>>
                   THEN MapDataset(self, map_func)
                 ELSE IF num_threads = <<>>
                   THEN ParallelMapDataset(self, map_func, num_parallel_calls[1])
                 ELSE ParallelMapDataset(self, map_func, num_threads[1])
  IN IF output_buffer_size # <<>>
       THEN prefetch(dataset, output_buffer_size[1])
       ELSE dataset

\* make_dataset_resource of MapDataset (lines 1674-1681) and of
\* ParallelMapDataset (lines 1701-1710): invocations the stage keeps in flight
KernelParallelCalls(ds) ==
  IF ds.kind = "ParallelMapDataset" THEN ds._num_parallel_calls[1] ELSE 1

\* The elements of the sequential map stage over the same upstream
SequentialMap(ds) ==
  [i \in 1..Len(ds._input_dataset) |-> ApplyMapFunc(ds._map_func, ds._input_dataset[i])]

ParallelChoices == { <<>> } \cup { <<n>> : n \in 1..MaxParallel }

InitMap(inputs, funcs, parallel) ==
  /\ pm_ds \in { map(u, f, <<>>, <<>>, n) : u \in inputs, f \in funcs, n \in parallel }
  /\ pm_next = 1
  /\ pm_window = <<>>
  /\ pm_done = FALSE
  /\ pm_out = <<>>
  /\ pm_ended = FALSE
  /\ pm_overtook = FALSE
  /\ pm_worker = "running"

ReadyIndexAnyFinished(w) ==
  IF \E i \in 1..Len(w) : w[i].finished
    THEN CHOOSE i \in 1..Len(w) : w[i].finished /\ \A j \in 1..(i - 1) : ~w[j].finished
    ELSE 0
\* Position in the window of the result the consumer may take, 0 if none: the
\* oldest invocation, once it has finished
ReadyIndex(w) == IF w # <<>> /\ w[1].finished THEN 1 ELSE 0

RemoveAt(w, k) == SubSeq(w, 1, k - 1) \o SubSeq(w, k + 1, Len(w))

\* The stage pulls the next upstream element and starts map_func on it
MapStart ==
  /\ ~Cancelled
  /\ ~pm_done
  /\ Len(pm_window) < KernelParallelCalls(pm_ds)
  /\ pm_next <= Len(pm_ds._input_dataset)
  /\ pm_window' = Append(pm_window,
                         [arg |-> pm_ds._input_dataset[pm_next], finished |-> FALSE, val |-> 0])
  /\ pm_next' = pm_next + 1
  /\ UNCHANGED <<pm_worker, pm_ds, pm_done, pm_out, pm_ended, pm_overtook>>
  /\ UNCHANGED nonPmVars

\* The stage's pull finds the upstream exhausted
MapUpstreamEnd ==
  /\ ~Cancelled
  /\ ~pm_done
  /\ Len(pm_window) < KernelParallelCalls(pm_ds)
  /\ pm_next > Len(pm_ds._input_dataset)
  /\ pm_done' = TRUE
  /\ UNCHANGED <<pm_worker, pm_ds, pm_next, pm_window, pm_out, pm_ended, pm_overtook>>
  /\ UNCHANGED nonPmVars

\* The invocation at position i of the window returns
MapFinish(i) ==
  /\ ~Cancelled
  /\ i \in 1..Len(pm_window)
  /\ ~pm_window[i].finished
  /\ pm_window' = [pm_window EXCEPT ![i] =
                     [arg |-> @.arg, finished |-> TRUE,
                      val |-> ApplyMapFunc(pm_ds._map_func, @.arg)]]
  /\ pm_overtook' = (pm_overtook \/ \E j \in 1..(i - 1) : ~pm_window[j].finished)
  /\ UNCHANGED <<pm_worker, pm_ds, pm_next, pm_done, pm_out, pm_ended>>
  /\ UNCHANGED nonPmVars

\* The consumer's pull returns a result
MapDeliver ==
  /\ ~Cancelled
  /\ ReadyIndex(pm_window) # 0
  /\ pm_out' = Append(pm_out, pm_window[ReadyIndex(pm_window)].val)
  /\ pm_window' = RemoveAt(pm_window, ReadyIndex(pm_window))
  /\ UNCHANGED <<pm_worker, pm_ds, pm_next, pm_done, pm_ended, pm_overtook>>
  /\ UNCHANGED nonPmVars

\* The consumer's pull returns the end of the sequence
MapEnd ==
  /\ ~Cancelled
  /\ pm_done
  /\ pm_window = <<>>
  /\ ~pm_ended
  /\ pm_ended' = TRUE
  /\ UNCHANGED <<pm_worker, pm_ds, pm_next, pm_window, pm_done, pm_out, pm_overtook>>
  /\ UNCHANGED nonPmVars

\* The workers see the stop signal, release the window and exit
MapWorkerStop ==
  /\ Cancelled
  /\ pm_worker = "running"
  /\ pm_worker' = "stopped"
  /\ pm_window' = <<>>
  /\ UNCHANGED <<pm_ds, pm_next, pm_done, pm_out, pm_ended, pm_overtook>>
  /\ UNCHANGED nonPmVars

NextMap ==
  \/ MapStart
  \/ MapUpstreamEnd
  \/ \E i \in 1..MaxParallel : MapFinish(i)
  \/ MapDeliver
  \/ MapEnd

InitMapIdle == InitMap({ <<>> }, { "double" }, { <<>> })

\* ------------------------------------------------ FlatMapDataset, InterleaveDataset
\* n copies of x: the elements of Dataset.from_tensors(x).repeat(n)
Copies(x, n) == [i \in 1..n |-> x]

SubFuncs == { "repeat6", "repeat2", "repeat_x" }

\* The elements of the dataset the user's map_func returns for element x
SubElements(f, x) ==
  CASE f = "repeat6" -> Copies(x, 6)
    [] f = "repeat2" -> Copies(x, 2)
    [] OTHER -> Copies(x, x)

\* FlatMapDataset.__init__ (lines 1717-1745)
FlatMapDataset(input_dataset, map_func) ==
  [_input_dataset |-> input_dataset, _map_func |-> map_func]

\* Dataset.flat_map (line 1033)
flat_map(self, map_func) == FlatMapDataset(self, map_func)

\* InterleaveDataset.__init__ (lines 1768-1799)
InterleaveDataset(input_dataset, map_func, cycle_length, block_length) ==
  [_input_dataset |-> input_dataset, _map_func |-> map_func,
   _cycle_length |-> cycle_length, _block_length |-> block_length]

interleaveLengthsSwapped(self, map_func, cycle_length, block_length) ==
  InterleaveDataset(self, map_func, block_length, cycle_length)
\* Dataset.interleave (line 1102)
interleave(self, map_func, cycle_length, block_length) ==
  InterleaveDataset(self, map_func, cycle_length, block_length)

InterleaveKernelArgsSwapped(ds) ==
  [input |-> ds._input_dataset, f |-> ds._map_func,
   cycle_length |-> ds._block_length, block_length |-> ds._cycle_length]
\* InterleaveDataset.make_dataset_resource (lines 1801-1809): what the stage is
\* handed
InterleaveKernelArgs(ds) ==
  [input |-> ds._input_dataset, f |-> ds._map_func,
   cycle_length |-> ds._cycle_length, block_length |-> ds._block_length]

\* The elements of the flat_map stage: the sub-datasets one after the other
RECURSIVE FlatMapFrom(_, _, _)
FlatMapFrom(input, f, i) ==
  IF i > Len(input) THEN <<>>
  ELSE SubElements(f, input[i]) \o FlatMapFrom(input, f, i + 1)
FlatMapElements(ds) == FlatMapFrom(ds._input_dataset, ds._map_func, 1)

ClosedSlot == [open |-> FALSE, rest |-> <<>>]

\* The interleave stage's iterator before its first pull
InterleaveIterator(k) ==
  [pos |-> 1, end_of_input |-> FALSE,
   current |-> [i \in 1..k.cycle_length |-> ClosedSlot],
   cycle_index |-> 0, block_index |-> 0, num_open |-> 0]

AdvanceToNextInCycle(k, st) ==
  [st EXCEPT !.block_index = 0,
             !.cycle_index = (st.cycle_index + 1) % k.cycle_length]

AdvancePosition(k, st) ==
  IF st.block_index + 1 = k.block_length
    THEN AdvanceToNextInCycle(k, st)
    ELSE [st EXCEPT !.block_index = st.block_index + 1]

\* One pull on the interleave stage: the iterator after it, and <<element>> or
\* <<>> for the end of the sequence
RECURSIVE InterleaveGetNextFrom(_, _)
InterleaveGetNextFrom(k, st) ==
  LET c == st.cycle_index + 1
      slot == st.current[c]
  IN IF st.end_of_input /\ st.num_open = 0
       THEN [st |-> st, out |-> <<>>]
     ELSE IF slot.open /\ slot.rest # <<>>
       THEN [st |-> AdvancePosition(k, [st EXCEPT !.current[c].rest = Tail(slot.rest)]),
             out |-> <<Head(slot.rest)>>]
     ELSE IF slot.open
       THEN InterleaveGetNextFrom(k,
              AdvanceToNextInCycle(k, [st EXCEPT !.current[c] = ClosedSlot,
                                                 !.num_open = st.num_open - 1]))
     ELSE IF ~st.end_of_input /\ st.pos <= Len(k.input)
       THEN InterleaveGetNextFrom(k,
              [st EXCEPT !.current[c] = [open |-> TRUE,
                                         rest |-> SubElements(k.f, k.input[st.pos])],
                         !.num_open = st.num_open + 1,
                         !.pos = st.pos + 1])
     ELSE IF ~st.end_of_input
       THEN InterleaveGetNextFrom(k, [st EXCEPT !.end_of_input = TRUE])
     ELSE InterleaveGetNextFrom(k, AdvanceToNextInCycle(k, st))

\* The example of the docstring of Dataset.interleave (lines 1067-1082)
InterleaveExample ==
  [input |-> <<1, 2, 3, 4, 5>>, map_func |-> "repeat6",
   cycle_length |-> 2, block_length |-> 4]

InterleaveCalls ==
  { [input |-> u, map_func |-> f, cycle_length |-> c, block_length |-> b] :
      u \in UpstreamChoices, f \in SubFuncs, c \in 1..MaxCycle, b \in 1..MaxBlock }
    \cup { InterleaveExample }

InitInterleave(calls) ==
  /\ il_call \in calls
  /\ il_ds = interleave(il_call.input, il_call.map_func,
                        il_call.cycle_length, il_call.block_length)
  /\ il_st = InterleaveIterator(InterleaveKernelArgs(il_ds))
  /\ il_out = <<>>
  /\ il_ended = FALSE

\* The consumer pulls one element from the interleave stage
InterleaveGetNext ==
  /\ ~il_ended
  /\ LET r == InterleaveGetNextFrom(InterleaveKernelArgs(il_ds), il_st)
     IN /\ il_st' = r.st
        /\ il_out' = il_out \o r.out
        /\ il_ended' = (r.out = <<>>)
  /\ UNCHANGED <<il_call, il_ds>>
  /\ UNCHANGED nonIlVars

NextInterleave == InterleaveGetNext

InitInterleaveIdle ==
  InitInterleave({ [input |-> <<>>, map_func |-> "repeat2",
                    cycle_length |-> 1, block_length |-> 1] })

\* ------------------------------------------------ ShuffleDataset
DEFAULT_GRAPH_SEED == 87654321

\* random_seed.get_seed with no graph-level seed set: <<seed, seed2>>, each <<>>
\* for None
get_seed(op_seed) ==
  IF op_seed # <<>> THEN << <<DEFAULT_GRAPH_SEED>>, op_seed >> ELSE << <<>>, <<>> >>

ShuffleDatasetSeedDropped(input_dataset, buffer_size, seed) ==
  [_input_dataset |-> input_dataset, _buffer_size |-> buffer_size,
   _seed |-> 0, _seed2 |-> 0]
\* ShuffleDataset.__init__ (lines 1414-1430)
ShuffleDataset(input_dataset, buffer_size, seed) ==
  LET seeds == get_seed(seed)
  IN [_input_dataset |-> input_dataset, _buffer_size |-> buffer_size,
      _seed |-> IF seeds[1] = <<>> THEN 0 ELSE seeds[1][1],
      _seed2 |-> IF seeds[2] = <<>> THEN 0 ELSE seeds[2][1]]

\* Dataset.shuffle (line 831)
shuffle(self, buffer_size, seed) == ShuffleDataset(self, buffer_size, seed)

ShuffleKernelArgsLargerBuffer(ds) ==
  [input |-> ds._input_dataset, buffer_size |-> ds._buffer_size + 1,
   seed |-> ds._seed, seed2 |-> ds._seed2]
\* ShuffleDataset.make_dataset_resource (lines 1432-1439): what the stage is handed
ShuffleKernelArgs(ds) ==
  [input |-> ds._input_dataset, buffer_size |-> ds._buffer_size,
   seed |-> ds._seed, seed2 |-> ds._seed2]

\* The stage's random generator: a deterministic sequence from its first state
RngModulus == 5
RngStates == 0..(RngModulus - 1)
NextRng(r) == (2 * r + 1) % RngModulus

\* First generator states an iterator of the stage may take: one that the seeds
\* fix, or any when both seeds are 0
SeededRng(k) ==
  IF k.seed = 0 /\ k.seed2 = 0
    THEN RngStates
    ELSE { ((k.seed % RngModulus) + k.seed2) % RngModulus }

\* The buffer after the fill from the upstream, and the input position after it
RECURSIVE ShuffleFill(_, _, _)
ShuffleFill(k, buffer, p) ==
  IF Len(buffer) < k.buffer_size /\ p <= Len(k.input)
    THEN ShuffleFill(k, Append(buffer, k.input[p]), p + 1)
    ELSE [buffer |-> buffer, pos |-> p]

ShuffleRuns == 1..2

SeedChoices == { <<>> } \cup { <<n>> : n \in 0..MaxSeed }
ShuffleUpstreams == SeqsUpTo({1, 2, 3}, MaxUpstream)
ShuffleCalls ==
  { [input |-> u, buffer_size |-> b, seed |-> sd] :
      u \in ShuffleUpstreams, b \in 1..MaxBuffer, sd \in SeedChoices }

NotStarted ==
  [started |-> FALSE, pos |-> 1, buffer |-> <<>>, rng |-> 0, out |-> <<>>,
   ended |-> FALSE, peak |-> 0]

InitShuffle(calls) ==
  /\ sf_call \in calls
  /\ sf_ds = shuffle(sf_call.input, sf_call.buffer_size, sf_call.seed)
  /\ sf_run = [r \in ShuffleRuns |-> NotStarted]

\* An iterator over the shuffle stage is created
ShuffleMakeIterator(r) ==
  /\ ~sf_run[r].started
  /\ \E g \in SeededRng(ShuffleKernelArgs(sf_ds)) :
       sf_run' = [sf_run EXCEPT ![r] = [NotStarted EXCEPT !.started = TRUE, !.rng = g]]
  /\ UNCHANGED <<sf_call, sf_ds>>
  /\ UNCHANGED nonSfVars

\* The consumer of iterator r pulls one element: the stage fills its buffer, then
\* hands out the element its generator picks, or the end when the buffer is empty
ShuffleGetNext(r) ==
  /\ sf_run[r].started
  /\ ~sf_run[r].ended
  /\ LET k == ShuffleKernelArgs(sf_ds)
         filled == ShuffleFill(k, sf_run[r].buffer, sf_run[r].pos)
         n == Len(filled.buffer)
         pick == (sf_run[r].rng % n) + 1
     IN sf_run' = [sf_run EXCEPT ![r] =
          IF n = 0
            THEN [@ EXCEPT !.pos = filled.pos, !.ended = TRUE]
            ELSE [@ EXCEPT !.pos = filled.pos,
                           !.peak = IF n > @ THEN n ELSE @,
                           !.buffer = RemoveAt(filled.buffer, pick),
                           !.out = Append(@, filled.buffer[pick]),
                           !.rng = NextRng(@)]]
  /\ UNCHANGED <<sf_call, sf_ds>>
  /\ UNCHANGED nonSfVars

NextShuffle ==
  \/ \E r \in ShuffleRuns : ShuffleMakeIterator(r)
  \/ \E r \in ShuffleRuns : ShuffleGetNext(r)

InitShuffleIdle == InitShuffle({ [input |-> <<>>, buffer_size |-> 1, seed |-> <<>>] })

\* ------------------------------------------------ CacheDataset
\* CacheDataset.__init__ (lines 1388-1393)
CacheDataset(input_dataset, filename) ==
  [_input_dataset |-> input_dataset, _filename |-> filename]

\* Dataset.cache (line 844)
cache(self, filename) == CacheDataset(self, filename)

\* CacheDataset.make_dataset_resource (lines 1395-1400): the upstream of the stage
CacheKernelInput(ds) == ds._input_dataset

Filenames == { "", "dir" }

\* after: (history) the pass began when the record was complete
NoPass == [mode |-> "none", pos |-> 1, recorded |-> <<>>, out |-> <<>>,
           ended |-> FALSE, after |-> FALSE]

InitCache(inputs, filenames) ==
  /\ ch_ds \in { cache(u, f) : u \in inputs, f \in filenames }
  /\ ch_cache = <<>>
  /\ ch_complete = FALSE
  /\ ch_pass = NoPass
  /\ ch_passes = 0
  /\ ch_pulls = 0
  /\ ch_pulls_done = 0

PassModeAlwaysWrite(complete) == "write"
\* What a new pass over the stage does: replay a complete record, else record
PassMode(complete) == IF complete THEN "read" ELSE "write"

\* A pass over the cache stage begins (repeat, or a new or re-initialized iterator)
CacheMakeIterator ==
  /\ ch_passes < MaxPasses
  /\ ch_pass' = [NoPass EXCEPT !.mode = PassMode(ch_complete), !.after = ch_complete]
  /\ ch_passes' = ch_passes + 1
  /\ UNCHANGED <<ch_ds, ch_cache, ch_complete, ch_pulls, ch_pulls_done>>
  /\ UNCHANGED nonChVars

\* A pull in a recording pass: the upstream is pulled, its element recorded and
\* returned; at its end the record becomes the stage's
CacheWriteGetNext ==
  /\ ch_pass.mode = "write"
  /\ ~ch_pass.ended
  /\ ch_pulls' = ch_pulls + 1
  /\ IF ch_pass.pos <= Len(CacheKernelInput(ch_ds))
       THEN /\ ch_pass' = [ch_pass EXCEPT
                 !.pos = @ + 1,
                 !.recorded = Append(@, CacheKernelInput(ch_ds)[ch_pass.pos]),
                 !.out = Append(@, CacheKernelInput(ch_ds)[ch_pass.pos])]
            /\ UNCHANGED <<ch_cache, ch_complete, ch_pulls_done>>
       ELSE /\ ch_pass' = [ch_pass EXCEPT !.ended = TRUE]
            /\ IF ch_complete
                 THEN UNCHANGED <<ch_cache, ch_complete, ch_pulls_done>>
                 ELSE /\ ch_cache' = ch_pass.recorded
                      /\ ch_complete' = TRUE
                      /\ ch_pulls_done' = ch_pulls + 1
  /\ UNCHANGED <<ch_ds, ch_passes>>
  /\ UNCHANGED nonChVars

\* A pull in a replaying pass: the next recorded element, or the end
CacheReadGetNext ==
  /\ ch_pass.mode = "read"
  /\ ~ch_pass.ended
  /\ ch_pass' = IF ch_pass.pos <= Len(ch_cache)
                  THEN [ch_pass EXCEPT !.pos = @ + 1,
                                       !.out = Append(@, ch_cache[ch_pass.pos])]
                  ELSE [ch_pass EXCEPT !.ended = TRUE]
  /\ UNCHANGED <<ch_ds, ch_cache, ch_complete, ch_passes, ch_pulls, ch_pulls_done>>
  /\ UNCHANGED nonChVars

NextCache ==
  \/ CacheMakeIterator
  \/ CacheWriteGetNext
  \/ CacheReadGetNext

InitCacheIdle == InitCache({ <<>> }, { "" })

\* ------------------------------------------------ RangeDataset
\* The outcome of a call that raised exception e instead of returning
Raised(e) == [raised |-> e]
HasRaised(x) == "raised" \in DOMAIN x

_parse_argsTwoSwapped(args) ==
  CASE Len(args) = 1 -> [_start |-> 0, _stop |-> args[1], _step |-> 1]
    [] Len(args) = 2 -> [_start |-> args[2], _stop |-> args[1], _step |-> 1]
    [] Len(args) = 3 -> [_start |-> args[1], _stop |-> args[2], _step |-> args[3]]
    [] OTHER -> Raised("ValueError")
\* RangeDataset._parse_args (lines 1349-1363): the object's fields, or the error
_parse_args(args) ==
  CASE Len(args) = 1 -> [_start |-> 0, _stop |-> args[1], _step |-> 1]
    [] Len(args) = 2 -> [_start |-> args[1], _stop |-> args[2], _step |-> 1]
    [] Len(args) = 3 -> [_start |-> args[1], _stop |-> args[2], _step |-> args[3]]
    [] OTHER -> Raised("ValueError")

\* RangeDataset.__init__ (lines 1344-1347)
RangeDataset(args) == _parse_args(args)

\* Dataset.range (line 694)
range(args) == RangeDataset(args)

\* RangeDataset.make_dataset_resource (lines 1368-1374): what the stage is handed
RangeKernelArgs(ds) == [start |-> ds._start, stop |-> ds._stop, step |-> ds._step]

\* The range stage has a value to return when its next value is before stop
RangeHasNext(k, next) ==
  \/ k.step > 0 /\ next < k.stop
  \/ k.step < 0 /\ next > k.stop

RangeValues == (-1)..MaxRange
RangeSteps == (-2)..2
RangeArgs ==
  { <<>> } \cup { <<b>> : b \in RangeValues }
    \cup { <<a, b>> : a \in RangeValues, b \in RangeValues }
    \cup { <<a, b, c>> : a \in RangeValues, b \in RangeValues, c \in RangeSteps }
    \cup { <<0, 1, 1, 1>> }

InitRange(args) ==
  /\ rg_args \in args
  /\ rg_ds = <<>>
  /\ rg_next = 0
  /\ rg_out = <<>>
  /\ rg_ended = "no"

\* Dataset.range(*args) is called and an iterator over the dataset is made
RangeConstruct ==
  /\ rg_ds = <<>>
  /\ rg_ds' = <<range(rg_args)>>
  /\ rg_next' = IF HasRaised(range(rg_args)) THEN 0 ELSE range(rg_args)._start
  /\ UNCHANGED <<rg_args, rg_out, rg_ended>>
  /\ UNCHANGED nonRgVars

\* The consumer pulls one element from the range stage
RangeGetNext ==
  /\ rg_ds # <<>>
  /\ ~HasRaised(rg_ds[1])
  /\ rg_ended = "no"
  /\ LET k == RangeKernelArgs(rg_ds[1])
     IN IF k.step = 0
          THEN /\ rg_ended' = "InvalidArgument"
               /\ UNCHANGED <<rg_next, rg_out>>
        ELSE IF RangeHasNext(k, rg_next)
          THEN /\ rg_out' = Append(rg_out, rg_next)
               /\ rg_next' = rg_next + k.step
               /\ UNCHANGED rg_ended
        ELSE /\ rg_ended' = "end"
             /\ UNCHANGED <<rg_next, rg_out>>
  /\ UNCHANGED <<rg_args, rg_ds>>
  /\ UNCHANGED nonRgVars

NextRange ==
  \/ RangeConstruct
  \/ RangeGetNext

InitRangeIdle == InitRange({ <<0>> })

\* ------------------------------------------------ Dataset.shard
\* A scalar tensor: a constant (static) or a placeholder fed with the value
Tensor(static, value) == [static |-> static, value |-> value]

\* tensor_util.constant_value: <<value>> of a constant, <<>> (None) otherwise
constant_value(t) == IF t.static THEN <<t.value>> ELSE <<>>

\* np.iinfo(int64).max of Dataset._enumerate (line 814), cut to the largest
\* integer of this model's arithmetic
max_value == 2147483647

\* ZipDataset.__init__ (lines 1241-1244)
ZipDataset(datasets) == [_datasets |-> datasets]

\* Dataset.zip (line 735)
zip(datasets) == ZipDataset(datasets)

enumerateFromOne(self, start) == zip(<<range(<<start + 1, max_value>>), self>>)
\* Dataset._enumerate (lines 812-815)
enumerate(self, start) == zip(<<range(<<start, max_value>>), self>>)

\* math_ops.mod: the remainder with the sign of the divisor, for x >= 0, y # 0
mod(x, y) == IF y > 0 THEN x % y ELSE -((-x) % (-y))

filter_fnAtMost(elem_index, num_shards, index) ==
  mod(elem_index, num_shards.value) <= index.value
\* filter_fn of Dataset.shard (lines 942-944)
filter_fn(elem_index, num_shards, index) == mod(elem_index, num_shards.value) = index.value

IndexAboveShards(index_static, num_shards_static) ==
  index_static # <<>> /\ num_shards_static # <<>> /\ index_static[1] > num_shards_static[1]
\* The third check of Dataset.shard (lines 936-938)
IndexNotBelowShards(index_static, num_shards_static) ==
  index_static # <<>> /\ num_shards_static # <<>> /\ index_static[1] >= num_shards_static[1]

\* Dataset.shard (lines 926-946): the ValueError raised, or the dataset
\* self._enumerate().filter(filter_fn).map(lambda _, elem: elem)
shard(self, num_shards, index) ==
  LET num_shards_static == constant_value(num_shards)
      index_static == constant_value(index)
  IN IF num_shards_static # <<>> /\ num_shards_static[1] < 1 THEN Raised("ValueError")
     ELSE IF index_static # <<>> /\ index_static[1] < 0 THEN Raised("ValueError")
     ELSE IF IndexNotBelowShards(index_static, num_shards_static) THEN Raised("ValueError")
     ELSE [enumerated |-> enumerate(self, 0), num_shards |-> num_shards, index |-> index]

\* One pull on the zip of the enumeration: the pair of the next position and the
\* next input element, or <<>> when either has ended
ZipGetNext(z, i) ==
  LET r == RangeKernelArgs(z._datasets[1])
      self == z._datasets[2]
  IN IF RangeHasNext(r, i.range_next) /\ i.pos <= Len(self)
       THEN [it |-> [range_next |-> i.range_next + r.step, pos |-> i.pos + 1],
             out |-> << <<i.range_next, self[i.pos]>> >>]
       ELSE [it |-> i, out |-> <<>>]

\* One pull on the dataset shard returned: the filter pulls pairs until filter_fn
\* holds, and the map keeps the element of the pair
RECURSIVE ShardGetNextFrom(_, _)
ShardGetNextFrom(ds, i) ==
  LET z == ZipGetNext(ds.enumerated, i)
  IN IF z.out = <<>> THEN [it |-> z.it, out |-> <<>>, ended |-> "end"]
     ELSE IF ds.num_shards.value = 0
       THEN [it |-> z.it, out |-> <<>>, ended |-> "InvalidArgument"]
     ELSE IF filter_fn(z.out[1][1], ds.num_shards, ds.index)
       THEN [it |-> z.it, out |-> <<z.out[1][2]>>, ended |-> "no"]
     ELSE ShardGetNextFrom(ds, z.it)

Tensors(values) == { Tensor(st, v) : st \in BOOLEAN, v \in values }
ShardCalls ==
  { [input |-> u, num_shards |-> n, index |-> i] :
      u \in UpstreamChoices,
      n \in Tensors((-1)..MaxShards),
      i \in Tensors((-1)..(MaxShards + 2)) }

InitShard(calls) ==
  /\ sh_call \in calls
  /\ sh_ds = <<>>
  /\ sh_it = [range_next |-> 0, pos |-> 1]
  /\ sh_out = <<>>
  /\ sh_ended = "no"

\* Dataset.shard(num_shards, index) is called and an iterator over the result made
ShardConstruct ==
  /\ sh_ds = <<>>
  /\ LET ds == shard(sh_call.input, sh_call.num_shards, sh_call.index)
     IN /\ sh_ds' = <<ds>>
        /\ sh_it' = IF HasRaised(ds) THEN sh_it
                    ELSE [range_next |-> RangeKernelArgs(ds.enumerated._datasets[1]).start,
                          pos |-> 1]
  /\ UNCHANGED <<sh_call, sh_out, sh_ended>>
  /\ UNCHANGED nonShVars

\* The consumer pulls one element from the sharded dataset
ShardGetNext ==
  /\ sh_ds # <<>>
  /\ ~HasRaised(sh_ds[1])
  /\ sh_ended = "no"
  /\ LET r == ShardGetNextFrom(sh_ds[1], sh_it)
     IN /\ sh_it' = r.it
        /\ sh_out' = sh_out \o r.out
        /\ sh_ended' = r.ended
  /\ UNCHANGED <<sh_call, sh_ds>>
  /\ UNCHANGED nonShVars

NextShard ==
  \/ ShardConstruct
  \/ ShardGetNext

InitShardIdle ==
  InitShard({ [input |-> <<>>, num_shards |-> Tensor(TRUE, 1), index |-> Tensor(TRUE, 0)] })

\* ------------------------------------------------ ZipDataset as a stage
\* A dataset to zip: its output_types and the elements it yields; an element is a
\* nested structure of values
Source(types, elems) == [output_types |-> types, elems |-> elems]

\* nest.flatten counts: the number of leaves of a structure
RECURSIVE NumLeaves(_)
RECURSIVE NumLeavesAll(_)
NumLeaves(a) == IF a.tag = "leaf" THEN 1 ELSE NumLeavesAll(a.items)
NumLeavesAll(xs) == IF xs = <<>> THEN 0 ELSE NumLeaves(Head(xs)) + NumLeavesAll(Tail(xs))

\* nest.pack_sequence_as(structure, flat_sequence)
RECURSIVE pack_sequence_as(_, _)
pack_sequence_as(structure, flat) ==
  IF structure.tag = "leaf" THEN Leaf(flat[1])
  ELSE Tuple([i \in 1..Len(structure.items) |->
         LET before == NumLeavesAll(SubSeq(structure.items, 1, i - 1))
         IN pack_sequence_as(structure.items[i],
              SubSeq(flat, before + 1, before + NumLeaves(structure.items[i])))])

\* The structure with every leaf x replaced by the structure x.output_types:
\* pack_sequence_as(datasets, [ds.output_types for ds in flatten(datasets)])
RECURSIVE TypesOf(_)
TypesOf(datasets) ==
  IF datasets.tag = "leaf" THEN datasets.v.output_types
  ELSE Tuple([i \in 1..Len(datasets.items) |-> TypesOf(datasets.items[i])])

ZipOutputTypesFlat(z) ==
  LET flat == FlattenAll([i \in 1..Len(Flatten(z._datasets)) |->
                            Flatten(z._datasets)[i].output_types])
  IN Tuple([i \in 1..Len(flat) |-> Leaf(flat[i])])
\* ZipDataset.output_types (lines 1266-1270)
ZipOutputTypes(z) == TypesOf(z._datasets)

\* ZipDataset.make_dataset_resource (lines 1246-1258): the inputs the stage is
\* handed, in the order of nest.flatten
ZipKernelInputs(z) == Flatten(z._datasets)

\* One pull on the zip stage: the inputs are pulled in order, each giving the
\* flattened components of its next element; the first input that has ended ends
\* the sequence
RECURSIVE ZipPullFrom(_, _, _, _)
ZipPullFrom(inputs, positions, k, acc) ==
  IF k > Len(inputs) THEN [pos |-> positions, out |-> acc, ended |-> FALSE]
  ELSE IF positions[k] > Len(inputs[k].elems)
    THEN [pos |-> positions, out |-> <<>>, ended |-> TRUE]
  ELSE ZipPullFrom(inputs, [positions EXCEPT ![k] = @ + 1], k + 1,
                   acc \o Flatten(inputs[k].elems[positions[k]]))

\* Iterator.get_next (lines 301-307): the flat components packed as output_types
PackElement(types, components) == pack_sequence_as(types, components)

\* The datasets of the docstring of Dataset.zip (lines 705-728), and an empty one
ZipA == Source(Int64, <<Leaf(1), Leaf(2), Leaf(3)>>)
ZipB == Source(Int64, <<Leaf(4), Leaf(5), Leaf(6), Leaf(7)>>)
ZipC == Source(Tuple(<<Int64, Int64>>),
               <<Tuple(<<Leaf(7), Leaf(8)>>), Tuple(<<Leaf(9), Leaf(10)>>),
                 Tuple(<<Leaf(11), Leaf(12)>>)>>)
ZipD == Source(Int64, <<Leaf(13), Leaf(14)>>)
ZipEmpty == Source(Int64, <<>>)
ZipSources == {ZipA, ZipB, ZipC, ZipD, ZipEmpty}
ZipCalls ==
  { Leaf(x) : x \in ZipSources }
    \cup { Tuple(<<Leaf(x), Leaf(y)>>) : x \in ZipSources, y \in ZipSources }
    \cup { Tuple(<<Leaf(x), Leaf(y), Leaf(ZipC)>>) : x \in ZipSources, y \in ZipSources }
    \cup { Tuple(<<Leaf(x), Tuple(<<Leaf(y), Leaf(ZipA)>>)>>) :
             x \in ZipSources, y \in ZipSources }

InitZip(calls) ==
  /\ zp_call \in calls
  /\ zp_ds = <<>>
  /\ zp_pos = <<>>
  /\ zp_out = <<>>
  /\ zp_pulls = 0
  /\ zp_ended = FALSE

\* Dataset.zip(datasets) is called and an iterator over the result is made
ZipConstruct ==
  /\ zp_ds = <<>>
  /\ zp_ds' = <<zip(zp_call)>>
  /\ zp_pos' = [k \in 1..Len(ZipKernelInputs(zip(zp_call))) |-> 1]
  /\ UNCHANGED <<zp_call, zp_out, zp_pulls, zp_ended>>
  /\ UNCHANGED nonZpVars

\* The consumer pulls one element from the iterator over the zip
ZipIteratorGetNext ==
  /\ zp_ds # <<>>
  /\ ~zp_ended
  /\ LET r == ZipPullFrom(ZipKernelInputs(zp_ds[1]), zp_pos, 1, <<>>)
     IN /\ zp_pos' = r.pos
        /\ zp_ended' = r.ended
        /\ zp_out' = IF r.ended THEN zp_out
                     ELSE Append(zp_out, PackElement(ZipOutputTypes(zp_ds[1]), r.out))
  /\ zp_pulls' = zp_pulls + 1
  /\ UNCHANGED <<zp_call, zp_ds>>
  /\ UNCHANGED nonZpVars

NextZip ==
  \/ ZipConstruct
  \/ ZipIteratorGetNext

InitZipIdle == InitZip({ Leaf(ZipEmpty) })

\* ------------------------------------------------ ConcatenateDataset
ConcatenateDatasetNoTypeCheck(input_dataset, dataset_to_concatenate) ==
  IF ~SameStructure(input_dataset.types, dataset_to_concatenate.types)
    THEN Raised("StructureError")
  ELSE [_input_dataset |-> input_dataset,
        _dataset_to_concatenate |-> dataset_to_concatenate]
\* ConcatenateDataset.__init__ (lines 1279-1292): the error raised, or the object
ConcatenateDataset(input_dataset, dataset_to_concatenate) ==
  IF ~SameStructure(input_dataset.types, dataset_to_concatenate.types)
    THEN Raised("StructureError")
  ELSE IF DtypesDiffer(Flatten(input_dataset.types),
                       Flatten(dataset_to_concatenate.types))
    THEN Raised("TypeError")
  ELSE [_input_dataset |-> input_dataset,
        _dataset_to_concatenate |-> dataset_to_concatenate]

\* Dataset.concatenate (line 761)
concatenate(self, dataset) == ConcatenateDataset(self, dataset)

\* TensorShape.most_specific_compatible_shape: unknown rank unless both ranks are
\* known and equal; then each dimension the two agree on, and unknown elsewhere
most_specific_compatible_shape(ts1, ts2) ==
  IF ~ts1.known \/ ~ts2.known \/ Len(ts1.dims) # Len(ts2.dims) THEN UnknownRank
  ELSE Shape([i \in 1..Len(ts1.dims) |->
                IF ts1.dims[i] # Unknown /\ ts1.dims[i] = ts2.dims[i]
                  THEN ts1.dims[i] ELSE Unknown])

\* Python's zip of two sequences
Zipped(xs, ys) ==
  [i \in 1..(IF Len(xs) <= Len(ys) THEN Len(xs) ELSE Len(ys)) |-> <<xs[i], ys[i]>>]

ConcatenateOutputShapesOfInput(c) == c._input_dataset.shapes
\* ConcatenateDataset.output_shapes (lines 1301-1308)
ConcatenateOutputShapes(c) ==
  LET pairs == Zipped(Flatten(c._input_dataset.shapes),
                      Flatten(c._dataset_to_concatenate.shapes))
  IN pack_sequence_as(c._input_dataset.shapes,
       [i \in 1..Len(pairs) |-> most_specific_compatible_shape(pairs[i][1], pairs[i][2])])

\* ConcatenateDataset.output_types (lines 1310-1312)
ConcatenateOutputTypes(c) == c._input_dataset.types

ConcatenateChoices ==
  DatasetChoices \cup { Dataset(Int64, Leaf(Shape(<<2, 3>>)), MaxDsLen),
                        Dataset(Int64, Leaf(UnknownRank), MaxDsLen) }
ConcatenateCalls == { [a |-> x, b |-> y] : x \in ConcatenateChoices, y \in ConcatenateChoices }

InitConcatenate(calls) ==
  /\ cc_call \in calls
  /\ cc_ds = <<>>
  /\ cc_types = <<>>
  /\ cc_shapes = <<>>

\* a.concatenate(b) is called
ConcatenateConstruct ==
  /\ cc_ds = <<>>
  /\ cc_ds' = <<concatenate(cc_call.a, cc_call.b)>>
  /\ UNCHANGED <<cc_call, cc_types, cc_shapes>>
  /\ UNCHANGED nonCcVars

\* The output_types property of the dataset returned is read
ConcatenateReadTypes ==
  /\ cc_ds # <<>>
  /\ ~HasRaised(cc_ds[1])
  /\ cc_types' = <<ConcatenateOutputTypes(cc_ds[1])>>
  /\ UNCHANGED <<cc_call, cc_ds, cc_shapes>>
  /\ UNCHANGED nonCcVars

\* The output_shapes property of the dataset returned is read
ConcatenateReadShapes ==
  /\ cc_ds # <<>>
  /\ ~HasRaised(cc_ds[1])
  /\ cc_shapes' = <<ConcatenateOutputShapes(cc_ds[1])>>
  /\ UNCHANGED <<cc_call, cc_ds, cc_types>>
  /\ UNCHANGED nonCcVars

NextConcatenate ==
  \/ ConcatenateConstruct
  \/ ConcatenateReadTypes
  \/ ConcatenateReadShapes

InitConcatenateIdle ==
  InitConcatenate({ [a |-> Dataset(Int64, Leaf(Shape(<<2>>)), 0),
                     b |-> Dataset(Int64, Leaf(Shape(<<2>>)), 0)] })

\* ------------------------------------------------ all the shards of a dataset
PartitionCalls ==
  { [input |-> u, num_shards |-> n] : u \in ShuffleUpstreams, n \in 1..MaxShards }

InitPartition(calls) ==
  /\ sp_call \in calls
  /\ sp_ds = <<>>
  /\ sp_it = <<>>
  /\ sp_out = <<>>
  /\ sp_ended = <<>>

\* Dataset.shard(num_shards, index) is called on one dataset for every index
\* below num_shards, and an iterator is made over each result
PartitionConstruct ==
  /\ sp_ds = <<>>
  /\ sp_ds' = [k \in 1..sp_call.num_shards |->
                 shard(sp_call.input, Tensor(TRUE, sp_call.num_shards), Tensor(TRUE, k - 1))]
  /\ sp_it' = [k \in 1..sp_call.num_shards |->
                 [range_next |-> RangeKernelArgs(sp_ds'[k].enumerated._datasets[1]).start,
                  pos |-> 1]]
  /\ sp_out' = [k \in 1..sp_call.num_shards |-> <<>>]
  /\ sp_ended' = [k \in 1..sp_call.num_shards |-> "no"]
  /\ UNCHANGED sp_call
  /\ UNCHANGED nonSpVars

\* The consumer of shard k (index k - 1) pulls one element
PartitionGetNext(k) ==
  /\ k \in 1..Len(sp_ds)
  /\ sp_ended[k] = "no"
  /\ LET r == ShardGetNextFrom(sp_ds[k], sp_it[k])
     IN /\ sp_it' = [sp_it EXCEPT ![k] = r.it]
        /\ sp_out' = [sp_out EXCEPT ![k] = @ \o r.out]
        /\ sp_ended' = [sp_ended EXCEPT ![k] = r.ended]
  /\ UNCHANGED <<sp_call, sp_ds>>
  /\ UNCHANGED nonSpVars

NextPartition ==
  \/ PartitionConstruct
  \/ \E k \in 1..MaxShards : PartitionGetNext(k)

InitPartitionIdle == InitPartition({ [input |-> <<>>, num_shards |-> 1] })

\* ------------------------------------------------ nodes with a user function
\* The user functions: what the k-th invocation returns (for flat_map and
\* interleave: the output_types and output_shapes of the dataset returned). A
\* function may return something else when it is invoked again.
UserFuncs == {"same_every_time", "other_when_reinvoked", "pair"}
UserFuncResult(func, k) ==
  CASE func = "same_every_time" -> [types |-> Int64, shapes |-> Leaf(Shape(<<2>>))]
    [] func = "other_when_reinvoked" ->
         IF k = 1 THEN [types |-> Int64, shapes |-> Leaf(Shape(<<2>>))]
         ELSE [types |-> Float32, shapes |-> Leaf(UnknownRank)]
    [] func = "pair" ->
         [types |-> Tuple(<<Int64, Float32>>),
          shapes |-> Tuple(<<Leaf(Shape(<<>>)), Leaf(Shape(<<k>>))>>)]
NodeKinds == {"MapDataset", "FlatMapDataset", "InterleaveDataset"}

\* The body of tf_map_func (lines 1636-1669, 1723-1741, 1774-1792): the user
\* function is invoked and the object's _output_types and _output_shapes are set
\* from what it returned
tf_map_func(st) ==
  LET r == UserFuncResult(st.node.user_func, st.calls + 1)
  IN [node |-> [st.node EXCEPT !._output_types = <<r.types>>,
                               !._output_shapes = <<r.shapes>>],
      calls |-> st.calls + 1]

\* function.Defun: the definition is created, by running the body once, the
\* first time it is needed, and kept
DefunDefinitionNeeded(st) ==
  IF st.node._map_func_defined THEN st
  ELSE LET traced == tf_map_func(st)
       IN [traced EXCEPT !.node._map_func_defined = TRUE]

\* _DefinedFunction.add_to_graph and .captured_inputs both need the definition
add_to_graph(st) == DefunDefinitionNeeded(st)
captured_inputs(st) == DefunDefinitionNeeded(st)

DynamicDatasetNotAddedToGraph(kind, func, calls) ==
  [node |-> [kind |-> kind, user_func |-> func, _output_types |-> <<>>,
             _output_shapes |-> <<>>, _map_func_defined |-> FALSE],
   calls |-> calls]
\* MapDataset.__init__ (lines 1626-1672), FlatMapDataset.__init__ (lines
\* 1717-1745), InterleaveDataset.__init__ (lines 1768-1799): the object, with
\* no schema yet, then self._map_func.add_to_graph(...)
DynamicDataset(kind, func, calls) ==
  add_to_graph([node |-> [kind |-> kind, user_func |-> func, _output_types |-> <<>>,
                          _output_shapes |-> <<>>, _map_func_defined |-> FALSE],
                calls |-> calls])

\* The output_types and output_shapes properties (lines 1683-1688, 1755-1761)
DynamicSchema(node) == <<node._output_types, node._output_shapes>>

\* make_dataset_resource (lines 1674-1681, 1747-1753, 1801-1809): captured_inputs
\* of the function, then the two properties
DynamicMakeDatasetResource(st) == captured_inputs(st)

\* The operations on one object a specification makes at most
MaxNodeOps == 3

InitDynamic(kinds, funcs) ==
  /\ dn_call \in { [kind |-> k, func |-> f] : k \in kinds, f \in funcs }
  /\ dn_node = <<>>
  /\ dn_calls = 0
  /\ dn_first = <<>>
  /\ dn_seen = <<>>

\* Dataset.map, flat_map or interleave constructs the object
DynamicConstruct ==
  /\ dn_node = <<>>
  /\ LET st == DynamicDataset(dn_call.kind, dn_call.func, dn_calls)
     IN /\ dn_node' = <<st.node>>
        /\ dn_calls' = st.calls
        /\ dn_first' = DynamicSchema(st.node)
  /\ UNCHANGED <<dn_call, dn_seen>>
  /\ UNCHANGED nonDnVars

\* output_types and output_shapes of the object are read
DynamicReadSchema ==
  /\ dn_node # <<>>
  /\ Len(dn_seen) < MaxNodeOps
  /\ dn_seen' = Append(dn_seen, [op |-> "read", schema |-> DynamicSchema(dn_node[1])])
  /\ UNCHANGED <<dn_call, dn_node, dn_calls, dn_first>>
  /\ UNCHANGED nonDnVars

\* make_dataset_resource of the object is called
DynamicResource ==
  /\ dn_node # <<>>
  /\ Len(dn_seen) < MaxNodeOps
  /\ LET st == DynamicMakeDatasetResource([node |-> dn_node[1], calls |-> dn_calls])
     IN /\ dn_node' = <<st.node>>
        /\ dn_calls' = st.calls
        /\ dn_seen' = Append(dn_seen, [op |-> "resource", schema |-> DynamicSchema(st.node)])
  /\ UNCHANGED <<dn_call, dn_first>>
  /\ UNCHANGED nonDnVars

\* Iterator.from_dataset (lines 88-99) on the object: its schema is read, its
\* resource is made, its schema is read again for the Iterator
DynamicMakeIterator ==
  /\ dn_node # <<>>
  /\ Len(dn_seen) < MaxNodeOps
  /\ LET st == DynamicMakeDatasetResource([node |-> dn_node[1], calls |-> dn_calls])
     IN /\ dn_node' = <<st.node>>
        /\ dn_calls' = st.calls
        /\ dn_seen' = Append(dn_seen, [op |-> "iterator", schema |-> DynamicSchema(st.node),
                                       before |-> DynamicSchema(dn_node[1])])
  /\ UNCHANGED <<dn_call, dn_first>>
  /\ UNCHANGED nonDnVars

NextDynamic ==
  \/ DynamicConstruct
  \/ DynamicReadSchema
  \/ DynamicResource
  \/ DynamicMakeIterator

InitDynamicIdle == InitDynamic({"MapDataset"}, {"same_every_time"})

\* The structural stages a specification of another stage leaves alone
InitStructuralIdle ==
  InitZipIdle /\ InitConcatenateIdle /\ InitPartitionIdle /\ InitDynamicIdle

\* ------------------------------------------------ disposal
\* The operation Iterator.dispose_op returns is run: the stages are signalled
DisposeOp ==
  /\ ~disposed
  /\ disposed' = TRUE
  /\ dp_snapshot' = <<Len(pf_buffer), Len(pm_window)>>
  /\ UNCHANGED nonDpVars

\* The datasets without background workers, not constructed
InitSourcesIdle ==
  /\ InitInterleaveIdle
  /\ InitShuffleIdle
  /\ InitCacheIdle
  /\ InitRangeIdle
  /\ InitShardIdle

\* Every stage that a specification does not exercise, in its initial state
InitStagesIdle ==
  /\ InitMapIdle
  /\ InitDisposal
  /\ InitSourcesIdle
  /\ InitStructuralIdle

\* ------------------------------------------------ specifications
\* SpecIssue: any thread calls get_next_id, concurrently.
\* Spec: any thread calls generator_py_func, concurrently, with identifiers that
\*   thread 1 obtains (get_next_id touches only _lock and _next_id, the pulls
\*   only _iterators, so who obtains the identifier does not matter to a pull).
\* SpecAdapter: one caller, generators that also yield ill-typed and ill-shaped
\*   elements.
InitIssue == InitMux(GoodGenerators, { DeclaredShapes }) /\ InitIter /\ InitPrefetchIdle /\ InitStagesIdle
NextIssue ==
  \E t \in Threads :
    \/ next_id < MaxIssued /\ GetNextIdEnter(t)
    \/ GetNextIdLeave(t)
SpecIssue == InitIssue /\ [][NextIssue]_vars

Init == InitMux(GoodGenerators, { DeclaredShapes }) /\ InitIter /\ InitPrefetchIdle /\ InitStagesIdle
Next ==
  \/ next_id < MaxIds /\ GetNextIdEnter(1)
  \/ GetNextIdLeave(1)
  \/ \E t \in Threads : PullStep(t)
Spec == Init /\ [][Next]_vars

InitAdapter == InitMux(GeneratorChoices, ShapeChoices) /\ InitIter /\ InitPrefetchIdle /\ InitStagesIdle
NextAdapter ==
  \/ next_id < MaxIds /\ GetNextIdEnter(1)
  \/ GetNextIdLeave(1)
  \/ PullStep(1)
SpecAdapter == InitAdapter /\ [][NextAdapter]_vars

\* SpecPasses: every caller is an iterator over the dataset of from_generator,
\* pulled independently of the others, pass after pass.
InitPasses == InitMux(GoodGenerators, { DeclaredShapes }) /\ InitIter /\ InitPrefetchIdle /\ InitStagesIdle
NextPasses == \E t \in Threads : PassStep(t)
SpecPasses == InitPasses /\ [][NextPasses]_vars

\* SpecIter: one iterator is created and used; the multiplexer is idle.
InitIterator == InitMux({ <<>> }, { DeclaredShapes }) /\ InitIter /\ InitPrefetchIdle /\ InitStagesIdle
SpecIter == InitIterator /\ [][NextIter]_vars

\* SpecPrefetch: one prefetch stage, its background loop and one consumer.
InitPrefetchStage ==
  /\ InitMux({ <<>> }, { DeclaredShapes })
  /\ InitIter
  /\ InitPrefetch(UpstreamChoices, 1..MaxBuffer)
  /\ InitStagesIdle
SpecPrefetch == InitPrefetchStage /\ [][NextPrefetch]_vars

\* SpecMap: one map stage, sequential or parallel, and one consumer.
InitMapStage ==
  /\ InitMux({ <<>> }, { DeclaredShapes })
  /\ InitIter
  /\ InitPrefetchIdle
  /\ InitMap(UpstreamChoices, MapFuncs, ParallelChoices)
  /\ InitDisposal
  /\ InitSourcesIdle
  /\ InitStructuralIdle
SpecMap == InitMapStage /\ [][NextMap]_vars

\* SpecDispose: an iterator over a prefetch stage and a parallel map stage, and
\* its disposal. A worker that is signalled gets to run and exits.
DisposeUpstreams == { <<1, 2>> }
InitDispose ==
  /\ InitMux({ <<>> }, { DeclaredShapes })
  /\ InitIter
  /\ InitPrefetch(DisposeUpstreams, 1..MaxBuffer)
  /\ InitMap(DisposeUpstreams, MapFuncs, { <<n>> : n \in 1..MaxParallel })
  /\ InitDisposal
  /\ InitSourcesIdle
  /\ InitStructuralIdle
NextDispose ==
  \/ NextPrefetch
  \/ NextMap
  \/ DisposeOp
  \/ PrefetchWorkerStop
  \/ MapWorkerStop
SpecDispose ==
  /\ InitDispose
  /\ [][NextDispose]_vars
  /\ WF_vars(PrefetchWorkerStop)
  /\ WF_vars(MapWorkerStop)

\* The stages a specification of one worker-less dataset leaves alone
InitNoWorkers ==
  /\ InitMux({ <<>> }, { DeclaredShapes })
  /\ InitIter
  /\ InitPrefetchIdle
  /\ InitMapIdle
  /\ InitDisposal

\* SpecInterleave: one interleave stage and its consumer.
InitInterleaveStage ==
  /\ InitNoWorkers
  /\ InitInterleave(InterleaveCalls)
  /\ InitShuffleIdle
  /\ InitCacheIdle
  /\ InitRangeIdle
  /\ InitShardIdle
  /\ InitStructuralIdle
SpecInterleave == InitInterleaveStage /\ [][NextInterleave]_vars

\* SpecShuffle: one shuffle stage and two iterators over it, pulled independently.
InitShuffleStage ==
  /\ InitNoWorkers
  /\ InitInterleaveIdle
  /\ InitShuffle(ShuffleCalls)
  /\ InitCacheIdle
  /\ InitRangeIdle
  /\ InitShardIdle
  /\ InitStructuralIdle
SpecShuffle == InitShuffleStage /\ [][NextShuffle]_vars

\* SpecCache: one cache stage and the passes over it, one after the other.
InitCacheStage ==
  /\ InitNoWorkers
  /\ InitInterleaveIdle
  /\ InitShuffleIdle
  /\ InitCache(UpstreamChoices, Filenames)
  /\ InitRangeIdle
  /\ InitShardIdle
  /\ InitStructuralIdle
SpecCache == InitCacheStage /\ [][NextCache]_vars

\* SpecRange: one call of Dataset.range and one iterator over its result.
InitRangeStage ==
  /\ InitNoWorkers
  /\ InitInterleaveIdle
  /\ InitShuffleIdle
  /\ InitCacheIdle
  /\ InitRange(RangeArgs)
  /\ InitShardIdle
  /\ InitStructuralIdle
SpecRange == InitRangeStage /\ [][NextRange]_vars

\* SpecShard: one call of Dataset.shard and one iterator over its result.
InitShardStage ==
  /\ InitNoWorkers
  /\ InitInterleaveIdle
  /\ InitShuffleIdle
  /\ InitCacheIdle
  /\ InitRangeIdle
  /\ InitShard(ShardCalls)
  /\ InitStructuralIdle
SpecShard == InitShardStage /\ [][NextShard]_vars

\* SpecZip: one call of Dataset.zip and one iterator over its result.
InitZipStage ==
  /\ InitNoWorkers
  /\ InitSourcesIdle
  /\ InitZip(ZipCalls)
  /\ InitConcatenateIdle
  /\ InitPartitionIdle
  /\ InitDynamicIdle
SpecZip == InitZipStage /\ [][NextZip]_vars

\* SpecConcatenate: one call of a.concatenate(b); the schema of the result is read.
InitConcatenateStage ==
  /\ InitNoWorkers
  /\ InitSourcesIdle
  /\ InitZipIdle
  /\ InitConcatenate(ConcatenateCalls)
  /\ InitPartitionIdle
  /\ InitDynamicIdle
SpecConcatenate == InitConcatenateStage /\ [][NextConcatenate]_vars

\* SpecPartition: every shard of one dataset, each with its own consumer.
InitPartitionStage ==
  /\ InitNoWorkers
  /\ InitSourcesIdle
  /\ InitZipIdle
  /\ InitConcatenateIdle
  /\ InitPartition(PartitionCalls)
  /\ InitDynamicIdle
SpecPartition == InitPartitionStage /\ [][NextPartition]_vars

\* SpecDynamic: one node with a user function is constructed and then used.
InitDynamicStage ==
  /\ InitNoWorkers
  /\ InitSourcesIdle
  /\ InitZipIdle
  /\ InitConcatenateIdle
  /\ InitPartitionIdle
  /\ InitDynamic(NodeKinds, UserFuncs)
SpecDynamic == InitDynamicStage /\ [][NextDynamic]_vars

\* ================================================================ claims
\* ---- helpers of the statements about the multiplexer
\* Every (thread, position) at which get_next_id returned an identifier
Returned == { <<t, k>> : t \in Threads, k \in 1..MaxIssued + NumThreads } \cap
            { c \in Threads \X (1..MaxIssued + NumThreads) : c[2] <= Len(issued[c[1]]) }
ReturnedIds == { issued[c[1]][c[2]] : c \in Returned }

\* C1: under any interleaving of concurrent get_next_id calls, the N identifiers
\* returned are pairwise distinct and are exactly 0..N-1, and the identifiers
\* returned to one caller are strictly increasing.
C1_IssueDistinctDense ==
  /\ \A c \in Returned : \A d \in Returned :
       c # d => issued[c[1]][c[2]] # issued[d[1]][d[2]]
  /\ ReturnedIds = 0..(Cardinality(Returned) - 1)
  /\ \A t \in Threads : \A k \in 1..Len(issued[t]) :
       k > 1 => issued[t][k - 1] < issued[t][k]

\* Two callers obtained identifiers in turn: one caller's two identifiers enclose
\* an identifier of the other.
C1_Witness ==
  \E t \in Threads : \E u \in Threads :
    /\ t # u
    /\ Len(issued[t]) >= 2
    /\ Len(issued[u]) >= 1
    /\ issued[t][1] < issued[u][1]
    /\ issued[u][1] < issued[t][2]

\* C2: once a pull on an identifier raised StopIteration, every later pull with
\* that identifier fails with NotFound (no new generator object, no element).
\* Stated for identifiers whose pulls never overlapped.
C2_NotFoundAfterExhausted ==
  \A id \in Ids :
    id \notin raced =>
      \A i \in 1..Len(log[id]) : \A j \in 1..Len(log[id]) :
        (i < j /\ log[id][i].kind = "StopIteration") => log[id][j].kind = "NotFound"

\* The elements the finished pulls on `id` returned, in order
RECURSIVE ElementsOf(_)
ElementsOf(entries) ==
  IF entries = <<>> THEN <<>>
  ELSE IF Head(entries).kind = "element"
       THEN <<Head(entries).values>> \o ElementsOf(Tail(entries))
       ELSE ElementsOf(Tail(entries))

IsPrefix(p, q) == Len(p) <= Len(q) /\ \A k \in 1..Len(p) : p[k] = q[k]

\* C3: whatever pulls happen on other identifiers, the elements returned by the
\* pulls on one identifier are those of one fresh run of the generator, in order.
\* Stated for identifiers whose pulls never overlapped.
C3_OneFreshInvocationPerId ==
  \A id \in Ids :
    id \notin raced => IsPrefix(ElementsOf(log[id]), generator)

\* The frame half of C3: a step of a pull on one identifier leaves the registry
\* entry and the generator objects of every other identifier as they were.
C3_FrameOtherIds ==
  [][\A t \in Threads :
       (pc[t] # "idle" /\ pc[t] # "incr" /\ pc'[t] # pc[t]) =>
         /\ \A b \in Ids : b # cur_id[t] => iterators'[b] = iterators[b]
         /\ \A h \in 1..Len(cursor) : inv_id[h] # cur_id[t] => cursor'[h] = cursor[h]]_vars

\* ---- helpers of the statement about validation
DtypeMismatch(entry, i) ==
  entry.values.arrays[i].dtype # as_numpy_dtype(flattened_types[i])
ShapeMismatch(entry, i) ==
  LET want == flattened_shapes[i]
      got == entry.values.arrays[i].shape
  IN want.known /\ got.known /\
       \/ Len(want.dims) # Len(got.dims)
       \/ \E d \in 1..Len(want.dims) :
            d <= Len(got.dims) /\ want.dims[d] # Unknown /\ want.dims[d] # got.dims[d]
Components(entry) == 1..Len(entry.values.arrays)

\* C4: every pull validates the yielded element against the declared types and
\* shapes: an element is returned only if every component has the declared dtype
\* and a compatible shape; a dtype mismatch fails the pull with TypeError and a
\* shape mismatch with ValueError; this holds for every pull, whatever its
\* position in the log.
C4_EveryElementValidated ==
  \A id \in Ids : \A k \in 1..Len(log[id]) :
    LET e == log[id][k]
    IN e.values # NoValue =>
         /\ e.kind \in {"element", "TypeError", "ValueError"}
         /\ e.kind = "element" <=>
              \A i \in Components(e) : ~DtypeMismatch(e, i) /\ ~ShapeMismatch(e, i)
         /\ e.kind = "TypeError" => \E i \in Components(e) : DtypeMismatch(e, i)
         /\ e.kind = "ValueError" => \E i \in Components(e) : ShapeMismatch(e, i)
         /\ (\A i \in Components(e) : ~ShapeMismatch(e, i)) => e.kind # "ValueError"
         /\ (\A i \in Components(e) : ~DtypeMismatch(e, i)) => e.kind # "TypeError"

\* A second pull was rejected after a first one was returned, once for its type
\* and once for its shape.
C4_Witness ==
  \E id \in Ids :
    /\ Len(log[id]) >= 2
    /\ log[id][1].kind = "element"
    /\ log[id][2].kind \in {"TypeError", "ValueError"}
    /\ \E i \in Components(log[id][2]) : ShapeMismatch(log[id][2], i)
    /\ \E i \in Components(log[id][2]) : DtypeMismatch(log[id][2], i)

\* ---- helpers of the statements about the iterator
LogIdx == 1..Len(it_log)
Binds(k) == it_log[k].op \in {"init", "create"}
\* No initializer ran strictly between events i and j
NoBindBetween(i, j) == \A k \in LogIdx : (i < k /\ k < j) => ~Binds(k)
ElementsBetween(i, j) ==
  Cardinality({ k \in LogIdx : i < k /\ k < j /\ it_log[k].res = "element" })

\* C5: after a get_next failed with OutOfRange, every later get_next fails with
\* OutOfRange until an initializer is run; and OutOfRange is raised only when the
\* bound dataset is exhausted (all its elements were returned since it was bound).
C5_OutOfRangeUntilRebind ==
  \A i \in LogIdx :
    it_log[i].res = "OutOfRange" =>
      /\ \A j \in LogIdx :
           (i < j /\ it_log[j].op = "get_next" /\ NoBindBetween(i, j))
             => it_log[j].res = "OutOfRange"
      /\ \E b \in LogIdx :
           /\ b < i
           /\ Binds(b)
           /\ NoBindBetween(b, i)
           /\ ElementsBetween(b, i) = it_log[b].n

\* An element, then OutOfRange twice, then an initializer run.
C5_Witness ==
  \E i \in LogIdx :
    /\ i + 3 <= Len(it_log)
    /\ it_log[i].res = "element"
    /\ it_log[i + 1].res = "OutOfRange"
    /\ it_log[i + 2].res = "OutOfRange"
    /\ it_log[i + 3].op = "init"

\* Compatibility of two shapes as the design document states it: same rank and
\* every dimension pair equal or unknown on a side (an unknown rank fits any)
ShapePairCompatible(a, b) ==
  (a.known /\ b.known) =>
    /\ Len(a.dims) = Len(b.dims)
    /\ \A k \in 1..Len(a.dims) :
         a.dims[k] = b.dims[k] \/ a.dims[k] = Unknown \/ b.dims[k] = Unknown
SchemaCompatible(types, shapes, d) ==
  /\ SameStructure(types, d.types)
  /\ SameStructure(shapes, d.shapes)
  /\ Flatten(types) = Flatten(d.types)
  /\ \A k \in 1..Len(Flatten(shapes)) :
       ShapePairCompatible(Flatten(shapes)[k], Flatten(d.shapes)[k])

\* C6: make_initializer(dataset) succeeds exactly when the dataset's structure,
\* leaf dtypes and leaf shapes are compatible with the iterator's.
C6_BindIffCompatible ==
  last_mi # <<>> =>
    (last_mi[2] = "ok" <=> SchemaCompatible(output_types, output_shapes, last_mi[1]))

\* A bind succeeded for a dataset whose shapes are not the iterator's own.
C6_Witness ==
  /\ last_mi # <<>>
  /\ last_mi[2] = "ok"
  /\ Flatten(last_mi[1].shapes) # Flatten(output_shapes)

\* C7: an iterator's output_types and output_shapes are, in every state after its
\* creation, the ones it was created with.
C7_SchemaFixedAtCreation ==
  it_kind # "none" => created = <<output_types, output_shapes>>

\* The iterator was rebound to a dataset with other (compatible) shapes, pulled
\* to exhaustion, and a later make_initializer failed.
C7_Witness ==
  /\ \E d \in init_ops : Flatten(d.shapes) # Flatten(output_shapes)
  /\ \E i \in LogIdx : it_log[i].res = "OutOfRange"
  /\ last_mi # <<>>
  /\ last_mi[2] # "ok"

\* C8: a one-shot iterator has no initializer, runs on its first get_next without
\* an initialization step, and once exhausted never returns an element again.
C8_OneShotNeverReinitialized ==
  it_kind = "one_shot" =>
    /\ last_prop \in {"unread", "ValueError"}
    /\ \A i \in LogIdx : it_log[i].res # "NotInitialized"
    /\ \A i \in LogIdx : \A j \in LogIdx :
         (i < j /\ it_log[i].res = "OutOfRange") => it_log[j].res # "element"

\* The first two parts of C8 on their own.
OneShotHasNoInitializerAndSelfStarts ==
  it_kind = "one_shot" =>
    /\ initializer = <<>>
    /\ last_prop \in {"unread", "ValueError"}
    /\ \A i \in LogIdx : it_log[i].res # "NotInitialized"

\* ---- helpers of the statements about prefetch
PfInput == pf_ds._input_dataset
PfPulled == SubSeq(PfInput, 1, pf_next - 1)
PfRemaining == SubSeq(PfInput, pf_next, Len(PfInput))

\* C9: the consumer of a prefetch stage receives the upstream sequence, in order,
\* nothing dropped or duplicated, and the end only after all of it.
C9_PrefetchKeepsSequence ==
  /\ IsPrefix(pf_out, PfInput)
  /\ pf_ended => pf_out = PfInput

\* A consumer received all of an upstream of three elements, not all equal, then
\* the end.
C9_Witness ==
  /\ pf_ended
  /\ Len(PfInput) >= 3
  /\ PfInput[1] # PfInput[2]
  /\ pf_out = PfInput

\* C10: the queue never holds more than buffer_size elements; every element
\* pulled from the upstream is in the queue or was delivered (none discarded, so
\* a full queue stops the background loop); and a pull that cannot return has an
\* empty queue and an upstream whose end was not seen.
C10_BoundedQueueBackpressure ==
  /\ Len(pf_buffer) <= pf_ds._buffer_size
  /\ pf_out \o pf_buffer = PfPulled
  /\ pf_out \o pf_buffer \o PfRemaining = PfInput
  /\ (pf_waiting /\ ~ENABLED (ConsumerTake \/ ConsumerEnd))
       => (pf_buffer = <<>> /\ ~pf_done)

\* The queue is full, upstream elements are left, and the background loop cannot
\* take a step.
C10_Witness ==
  /\ Len(pf_buffer) = pf_ds._buffer_size
  /\ pf_next <= Len(PfInput)
  /\ ~ENABLED (PrefetchProduce \/ PrefetchUpstreamEnd)
  /\ pf_out # <<>>

\* C11: a parallel map delivers, at every moment, a prefix of what the
\* sequential map over the same upstream delivers, and all of it before the end:
\* the i-th element delivered is map_func of the i-th upstream element.
C11_ParallelMapKeepsOrder ==
  pm_ds.kind = "ParallelMapDataset" =>
    /\ IsPrefix(pm_out, SequentialMap(pm_ds))
    /\ pm_ended => pm_out = SequentialMap(pm_ds)

\* A parallel map over unequal elements ended after an invocation had finished
\* before an earlier one.
C11_Witness ==
  /\ pm_ds.kind = "ParallelMapDataset"
  /\ pm_ended
  /\ pm_overtook
  /\ Len(pm_out) >= 2
  /\ pm_out[1] # pm_out[2]

\* ---- helpers of the statement about disposal
WorkersStopped == pf_worker = "stopped" /\ pm_worker = "stopped"
FinishedIn(w) == Cardinality({ i \in 1..Len(w) : w[i].finished })
\* A step in which no worker pulls from an upstream, runs map_func or enqueues
NoWorkerActivity ==
  /\ pf_next' = pf_next
  /\ pm_next' = pm_next
  /\ Len(pf_buffer') <= Len(pf_buffer)
  /\ Len(pm_window') <= Len(pm_window)
  /\ FinishedIn(pm_window') <= FinishedIn(pm_window)

\* C12: once the iterator is disposed every worker of the prefetch and parallel
\* map stages eventually stops; no step after the disposal pulls from an
\* upstream, runs map_func or enqueues; stopped workers have released their
\* queues.
C12_DisposeStopsWorkers ==
  /\ disposed ~> WorkersStopped
  /\ [][disposed => NoWorkerActivity]_vars
  /\ [](WorkersStopped => (pf_buffer = <<>> /\ pm_window = <<>>))

\* Both workers stopped after a disposal that found elements in both queues and
\* upstream elements not yet pulled.
C12_Witness ==
  /\ disposed
  /\ WorkersStopped
  /\ dp_snapshot = <<1, 1>>
  /\ pf_next <= Len(pf_ds._input_dataset)
  /\ pm_next <= Len(pm_ds._input_dataset)

\* ---- helpers of the statements about interleave
OpenSlots == Cardinality({ i \in 1..Len(il_st.current) : il_st.current[i].open })
Count(q, v) == Cardinality({ i \in 1..Len(q) : q[i] = v })
SameElements(p, q) ==
  /\ Len(p) = Len(q)
  /\ \A i \in 1..Len(p) : Count(p, p[i]) = Count(q, p[i])
ExampleOutput ==
  <<1, 1, 1, 1, 2, 2, 2, 2, 1, 1, 2, 2, 3, 3, 3, 3, 4, 4, 4, 4, 3, 3, 4, 4,
    5, 5, 5, 5, 5, 5>>

\* C13: interleave keeps at most cycle_length sub-iterators open and never takes
\* more than block_length elements in a row from a slot index; it loses and adds
\* nothing; and for the input 1..5, each mapped to six copies, cycle_length 2 and
\* block_length 4, the consumer receives exactly the sequence of the docstring.
C13_InterleaveOrder ==
  /\ OpenSlots <= il_call.cycle_length
  /\ OpenSlots = il_st.num_open
  /\ il_st.block_index < il_call.block_length
  /\ il_ended => SameElements(il_out, FlatMapElements(flat_map(il_call.input, il_call.map_func)))
  /\ il_call = InterleaveExample =>
       /\ IsPrefix(il_out, ExampleOutput)
       /\ il_ended => il_out = ExampleOutput

\* The interleave of the example delivered all thirty elements and ended.
C13_Witness ==
  /\ il_call = InterleaveExample
  /\ il_ended
  /\ Len(il_out) = 30

\* C14: with cycle_length 1 interleave delivers what flat_map over the same
\* input and function delivers, whatever block_length is.
C14_CycleOneIsFlatMap ==
  il_call.cycle_length = 1 =>
    /\ IsPrefix(il_out, FlatMapElements(flat_map(il_call.input, il_call.map_func)))
    /\ il_ended => il_out = FlatMapElements(flat_map(il_call.input, il_call.map_func))

\* An interleave with cycle_length 1 and a block shorter than its sub-datasets
\* ended over an input of unequal elements.
C14_Witness ==
  /\ il_call.cycle_length = 1
  /\ il_call.block_length = 2
  /\ il_call.map_func = "repeat6"
  /\ Len(il_call.input) >= 2
  /\ il_call.input[1] # il_call.input[2]
  /\ il_ended

\* C15: whatever the seed, each iterator over a shuffle has received, together
\* with what its buffer holds, exactly the upstream elements pulled so far; the
\* buffer never holds more than buffer_size elements; and the end comes only
\* after the upstream is exhausted and the buffer is empty, so that the output is
\* a permutation of the upstream.
C15_ShuffleIsPermutation ==
  \A r \in ShuffleRuns :
    /\ Len(sf_run[r].buffer) <= sf_call.buffer_size
    /\ sf_run[r].peak <= sf_call.buffer_size
    /\ SameElements(sf_run[r].out \o sf_run[r].buffer,
                    SubSeq(sf_call.input, 1, sf_run[r].pos - 1))
    /\ sf_run[r].ended =>
         /\ sf_run[r].buffer = <<>>
         /\ sf_run[r].pos = Len(sf_call.input) + 1
         /\ SameElements(sf_run[r].out, sf_call.input)

\* An iterator with a buffer of two ended over three unequal elements, in an
\* order other than the upstream's.
C15_Witness ==
  \E r \in ShuffleRuns :
    /\ sf_run[r].ended
    /\ sf_call.buffer_size = 2
    /\ Len(sf_call.input) = 3
    /\ Cardinality({ sf_call.input[i] : i \in 1..3 }) = 3
    /\ sf_run[r].out # sf_call.input

\* C16: when a seed is given, two iterators over the same shuffle receive the same
\* sequence: at every moment the shorter output is a prefix of the longer.
C16_SameSeedSameOrder ==
  sf_call.seed # <<>> =>
    \/ IsPrefix(sf_run[1].out, sf_run[2].out)
    \/ IsPrefix(sf_run[2].out, sf_run[1].out)

\* Two iterators with the same given seed both ended with the same order, which
\* is not the upstream's.
C16_Witness ==
  /\ sf_call.seed # <<>>
  /\ sf_run[1].ended
  /\ sf_run[2].ended
  /\ sf_run[1].out = sf_run[2].out
  /\ sf_run[1].out # sf_call.input

\* Without a seed two iterators over the same shuffle may differ.
UnseededRunsAgree ==
  sf_call.seed = <<>> =>
    \/ IsPrefix(sf_run[1].out, sf_run[2].out)
    \/ IsPrefix(sf_run[2].out, sf_run[1].out)

\* C17: once a pass has recorded the upstream to its end, the record is the
\* upstream's sequence, the upstream is never pulled again, and every pass begun
\* afterwards delivers the record, element for element, then the end.
C17_CacheReplays ==
  ch_complete =>
    /\ ch_cache = ch_ds._input_dataset
    /\ ch_pulls = ch_pulls_done
    /\ ch_pass.after =>
         /\ IsPrefix(ch_pass.out, ch_cache)
         /\ ch_pass.ended => ch_pass.out = ch_cache

\* A third pass, begun after the record completed, delivered all of a record of
\* two or more elements and ended.
C17_Witness ==
  /\ ch_complete
  /\ ch_passes = 3
  /\ ch_pass.after
  /\ ch_pass.ended
  /\ Len(ch_pass.out) >= 2

\* ---- helpers of the statements about shard
ShardKnown(t) == sh_call[t].static
ShardValue(t) == sh_call[t].value
ShardValid ==
  ShardValue("num_shards") >= 1 /\ ShardValue("index") >= 0
    /\ ShardValue("index") < ShardValue("num_shards")
\* 0-based positions of the input that belong to the shard
ShardPositions ==
  { p \in 0..(Len(sh_call.input) - 1) : p % ShardValue("num_shards") = ShardValue("index") }
\* The elements at those positions, in input order
ShardExpected ==
  [k \in 1..Cardinality(ShardPositions) |->
     sh_call.input[ShardValue("index") + (k - 1) * ShardValue("num_shards") + 1]]

\* C18: Dataset.shard raises ValueError when a statically known num_shards is
\* below 1, a statically known index is below 0, or both are known and index is
\* not below num_shards; it returns a dataset for every known pair with
\* 0 <= index < num_shards; and a check that needs a value that is not statically
\* known is skipped, so that with no known value in violation it returns a dataset.
C18_ShardValidation ==
  sh_ds # <<>> =>
    /\ (ShardKnown("num_shards") /\ ShardValue("num_shards") < 1) => sh_ds[1] = Raised("ValueError")
    /\ (ShardKnown("index") /\ ShardValue("index") < 0) => sh_ds[1] = Raised("ValueError")
    /\ (ShardKnown("num_shards") /\ ShardKnown("index")
          /\ ShardValue("index") >= ShardValue("num_shards")) => sh_ds[1] = Raised("ValueError")
    /\ (ShardKnown("num_shards") /\ ShardKnown("index") /\ ShardValid)
         => ~HasRaised(sh_ds[1])
    /\ (~ShardKnown("num_shards") /\ ~ShardKnown("index")) => ~HasRaised(sh_ds[1])
    /\ (~ShardKnown("num_shards") /\ ShardKnown("index") /\ ShardValue("index") >= 0)
         => ~HasRaised(sh_ds[1])
    /\ (ShardKnown("num_shards") /\ ~ShardKnown("index") /\ ShardValue("num_shards") >= 1)
         => ~HasRaised(sh_ds[1])

\* shard(3, 5) with both values known was called and raised ValueError.
C18_Witness ==
  /\ sh_ds = <<Raised("ValueError")>>
  /\ sh_call.num_shards = Tensor(TRUE, 3)
  /\ sh_call.index = Tensor(TRUE, 5)

\* C19: for valid num_shards and index, shard delivers the input elements at the
\* 0-based positions p with p mod num_shards = index, in input order and without
\* the position.
C19_ShardSelectsPositions ==
  (sh_ds # <<>> /\ ShardValid) =>
    /\ ~HasRaised(sh_ds[1])
    /\ sh_ended # "InvalidArgument"
    /\ IsPrefix(sh_out, ShardExpected)
    /\ sh_ended = "end" => sh_out = ShardExpected

\* Shard 1 of 2 over three elements, the second unlike the others, ended after
\* delivering that element alone.
C19_Witness ==
  /\ sh_ended = "end"
  /\ ShardValue("num_shards") = 2
  /\ ShardValue("index") = 1
  /\ Len(sh_call.input) = 3
  /\ sh_call.input[2] # sh_call.input[1]
  /\ sh_out = <<sh_call.input[2]>>

\* ---- helpers of the statement about range
RangeStart == IF Len(rg_args) = 1 THEN 0 ELSE rg_args[1]
RangeStop == IF Len(rg_args) = 1 THEN rg_args[1] ELSE rg_args[2]
RangeStep == IF Len(rg_args) = 3 THEN rg_args[3] ELSE 1
BeforeStop(v) ==
  \/ RangeStep > 0 /\ v < RangeStop
  \/ RangeStep < 0 /\ v > RangeStop
RangeExamples ==
  /\ rg_args = <<0, 5>> => rg_out = <<0, 1, 2, 3, 4>>
  /\ rg_args = <<5>> => rg_out = <<0, 1, 2, 3, 4>>
  /\ rg_args = <<5, 1>> => rg_out = <<>>
  /\ rg_args = <<5, 1, -2>> => rg_out = <<5, 3>>
  /\ rg_args = <<1, 5, -2>> => rg_out = <<>>

\* C20: with one to three arguments and a step other than 0, range delivers
\* start, start + step, ... while the value is before stop (below it for a
\* positive step, above it for a negative one), then the end, without error;
\* one argument means start 0 and step 1, two mean step 1.
C20_RangeValues ==
  (rg_ds # <<>> /\ Len(rg_args) \in 1..3 /\ RangeStep # 0) =>
    /\ ~HasRaised(rg_ds[1])
    /\ rg_ended # "InvalidArgument"
    /\ \A k \in 1..Len(rg_out) :
         /\ rg_out[k] = RangeStart + (k - 1) * RangeStep
         /\ BeforeStop(rg_out[k])
    /\ rg_ended = "end" =>
         /\ ~BeforeStop(RangeStart + Len(rg_out) * RangeStep)
         /\ RangeExamples

\* range(5, 1, -2) delivered 5 and 3 and ended.
C20_Witness ==
  /\ rg_args = <<5, 1, -2>>
  /\ rg_out = <<5, 3>>
  /\ rg_ended = "end"

\* ---- helpers of the statement about a zero step
ZeroStep == Len(rg_args) = 3 /\ rg_args[3] = 0

\* C21: a range with step 0 is invalid: with the step given as a Python integer
\* (statically known) the call fails at construction, and no element is ever
\* delivered.
C21_ZeroStepFailsAtConstruction ==
  (rg_ds # <<>> /\ ZeroStep) =>
    /\ HasRaised(rg_ds[1])
    /\ rg_out = <<>>

\* The part of C21 that holds: a range with step 0 delivers no element, and its
\* first pull ends with InvalidArgument.
ZeroStepNeverYields ==
  ZeroStep =>
    /\ rg_out = <<>>
    /\ rg_ended \in {"no", "InvalidArgument"}

\* ---- helpers of the statement about zip
\* The structure given to zip with every dataset replaced by its i-th element
RECURSIVE ElementsAt(_, _)
ElementsAt(datasets, i) ==
  IF datasets.tag = "leaf" THEN datasets.v.elems[i]
  ELSE Tuple([k \in 1..Len(datasets.items) |-> ElementsAt(datasets.items[k], i)])
\* The length of the shortest dataset of the structure
RECURSIVE MinLength(_)
MinLength(datasets) ==
  IF datasets.tag = "leaf" THEN Len(datasets.v.elems)
  ELSE LET ls == { MinLength(datasets.items[k]) : k \in 1..Len(datasets.items) }
       IN CHOOSE l \in ls : \A m \in ls : l <= m

\* C22: the i-th element of a zip is the structure the caller gave with every
\* dataset replaced by its i-th element; the pull after the last element of the
\* shortest input reports the end, so the zip is as long as its shortest input;
\* zip of {1,2,3} and {4,5,6,7} is (1,4), (2,5), (3,6).
C22_ZipPairsElements ==
  /\ \A i \in 1..Len(zp_out) : zp_out[i] = ElementsAt(zp_call, i)
  /\ Len(zp_out) <= MinLength(zp_call)
  /\ zp_ended => (Len(zp_out) = MinLength(zp_call) /\ zp_pulls = Len(zp_out) + 1)
  /\ ~zp_ended => zp_pulls = Len(zp_out)
  /\ (zp_ended /\ zp_call = Tuple(<<Leaf(ZipA), Leaf(ZipB)>>)) =>
       zp_out = << Tuple(<<Leaf(1), Leaf(4)>>), Tuple(<<Leaf(2), Leaf(5)>>),
                   Tuple(<<Leaf(3), Leaf(6)>>) >>

\* A zip of a dataset with a nested pair of a dataset of pairs and a dataset of
\* scalars, the first of them the shortest, ended after two nested elements.
C22_Witness ==
  /\ zp_call = Tuple(<<Leaf(ZipD), Tuple(<<Leaf(ZipC), Leaf(ZipA)>>)>>)
  /\ zp_ended
  /\ Len(zp_out) = 2
  /\ zp_out[2] = Tuple(<<Leaf(14),
                         Tuple(<<Tuple(<<Leaf(9), Leaf(10)>>), Leaf(2)>>)>>)

\* ---- helpers of the statement about concatenate
\* The flattened types and shapes of the two datasets of the call
TypesA == Flatten(cc_call.a.types)
TypesB == Flatten(cc_call.b.types)
ShapesA == Flatten(cc_call.a.shapes)
ShapesB == Flatten(cc_call.b.shapes)
ConcatenateMustFail ==
  \/ ~SameStructure(cc_call.a.types, cc_call.b.types)
  \/ \E k \in 1..Len(TypesA) : k <= Len(TypesB) /\ TypesA[k] # TypesB[k]
\* Leaf k of the output shapes s keeps what the two inputs agree on
LeafShapeMerged(s, k) ==
  IF ShapesA[k].known /\ ShapesB[k].known /\ Len(ShapesA[k].dims) = Len(ShapesB[k].dims)
    THEN /\ s.known
         /\ Len(s.dims) = Len(ShapesA[k].dims)
         /\ \A i \in 1..Len(s.dims) :
              s.dims[i] = (IF ShapesA[k].dims[i] = ShapesB[k].dims[i]
                             THEN ShapesA[k].dims[i] ELSE Unknown)
  ELSE ~s.known

\* C23: a.concatenate(b) raises at construction when the types of a and b differ
\* in nesting structure or in a leaf dtype, and only then; the output types of
\* the result are those of a; each leaf of its output shapes keeps the
\* dimensions a and b agree on and is unknown elsewhere (of unknown rank when
\* a rank is unknown or the ranks differ), and reading the shapes never fails.
C23_ConcatenateSchema ==
  /\ cc_ds # <<>> => (HasRaised(cc_ds[1]) <=> ConcatenateMustFail)
  /\ cc_types # <<>> => cc_types[1] = cc_call.a.types
  /\ cc_shapes # <<>> =>
       /\ SameStructure(cc_shapes[1], cc_call.a.shapes)
       /\ \A k \in 1..Len(ShapesA) : LeafShapeMerged(Flatten(cc_shapes[1])[k], k)
  /\ (cc_ds # <<>> /\ ~HasRaised(cc_ds[1])) => ENABLED ConcatenateReadShapes

\* Datasets of shapes [2, 2] and [2, 3] were concatenated and the shape [2, ?]
\* was read from the result.
C23_Witness ==
  /\ cc_call.a.shapes = Leaf(Shape(<<2, 2>>))
  /\ cc_call.b.shapes = Leaf(Shape(<<2, 3>>))
  /\ cc_shapes = <<Leaf(Shape(<<2, Unknown>>))>>

\* ---- helpers of the statements about passes
\* The identifiers issued to iterator t, one per pass
PassIds(t) == { issued[t][k] : k \in 1..Len(issued[t]) }
AllPassIds == UNION { PassIds(t) : t \in Threads }
PassComplete(id) ==
  log[id] # <<>> /\ log[id][Len(log[id])].kind = "StopIteration"

\* C24: iterators over the same from_generator dataset, pulled independently in
\* any interleaving, deliver the same elements: of any two passes one has
\* delivered a prefix of the other, two complete passes have delivered the same
\* sequence, and that sequence is the one a single run of the generator yields,
\* whatever identifiers the passes were given.
C24_IteratorsAgree ==
  /\ \A a \in AllPassIds : \A b \in AllPassIds :
       /\ \/ IsPrefix(ElementsOf(log[a]), ElementsOf(log[b]))
          \/ IsPrefix(ElementsOf(log[b]), ElementsOf(log[a]))
       /\ (PassComplete(a) /\ PassComplete(b)) => ElementsOf(log[a]) = ElementsOf(log[b])
  /\ \A a \in AllPassIds :
       /\ IsPrefix(ElementsOf(log[a]), generator)
       /\ PassComplete(a) => ElementsOf(log[a]) = generator
       /\ \A k \in 1..Len(log[a]) : log[a][k].kind \in {"element", "StopIteration"}

\* Two iterators have each delivered both elements of the generator; one pass
\* has ended and the last pull of the other is still in flight.
C24_Witness ==
  \E t \in Threads : \E u \in Threads :
    /\ t # u
    /\ issued[t] # <<>> /\ issued[u] # <<>>
    /\ Len(generator) = 2
    /\ PassComplete(PassId(t))
    /\ Len(ElementsOf(log[PassId(u)])) = 2
    /\ pc[u] = "completed"

\* The generator objects created for an identifier
InvocationsOf(id) == { h \in 1..Len(inv_id) : inv_id[h] = id }
\* Every (iterator, pass) that has begun
Passes == { c \in Threads \X (1..MaxIds) : c[2] <= Len(issued[c[1]]) }

\* C26: every pass is given one identifier that no other pass has, and every
\* pull of the pass carries it; the pulls of a pass run one generator object,
\* created for the pass, from its first element; and the pass ends with the pull
\* in which that object is exhausted: StopIteration is the last outcome of the
\* pass and comes after all the generator's elements.
C26_OneInvocationPerPass ==
  /\ \A c \in Passes : \A d \in Passes :
       c # d => issued[c[1]][c[2]] # issued[d[1]][d[2]]
  /\ \A t \in Threads :
       pc[t] \in {"lookup", "factory", "next", "running", "completed"} =>
         /\ issued[t] # <<>>
         /\ cur_id[t] = issued[t][Len(issued[t])]
  /\ \A id \in Ids :
       /\ Cardinality(InvocationsOf(id)) <= 1
       /\ log[id] # <<>> => id \in AllPassIds
       /\ IsPrefix(ElementsOf(log[id]), generator)
       /\ \A k \in 1..Len(log[id]) :
            log[id][k].kind = "StopIteration" =>
              /\ k = Len(log[id])
              /\ Len(ElementsOf(log[id])) = Len(generator)
  /\ \A t \in Threads : \A k \in 1..Len(issued[t]) :
       k < Len(issued[t]) => PassComplete(issued[t][k])

\* One iterator has ended a first pass of one element and delivered the same
\* element in its second pass, with the second identifier.
C26_Witness ==
  \E t \in Threads :
    /\ issued[t] = <<0, 1>>
    /\ Len(generator) = 1
    /\ PassComplete(0)
    /\ log[1] # <<>>
    /\ ElementsOf(log[1]) = generator
    /\ Cardinality(InvocationsOf(1)) = 1

\* ---- helpers of the statement about the registry and the lock
NotYetCompleted(id) == \A k \in 1..Len(log[id]) : log[id][k].kind # "StopIteration"

\* C25: under any interleaving of concurrent pulls and completions, the default
\* factory runs at most once for an identifier (here: for an identifier no
\* pull of which has yet raised StopIteration, so that two first pulls are the
\* only way to a second run), and the entry of an identifier is removed at most
\* once: no pull finds the entry already removed when it removes it.
C25_RegistryUnderLock ==
  \A id \in Ids :
    /\ NotYetCompleted(id) => Cardinality(InvocationsOf(id)) <= 1
    /\ \A k \in 1..Len(log[id]) : log[id][k].kind # "KeyError"

\* ---- helpers of the statement about a rejected element
Rejected(entry) == entry.kind \in {"TypeError", "ValueError"}
\* This step finished a pull on id
PullFinished(id) == Len(log'[id]) = Len(log[id]) + 1

\* C28: a pull that raises TypeError or ValueError for the element it fetched
\* leaves the registry as it was, with the identifier's entry in it, and the
\* generator object one element further; the pull that follows a rejected
\* element on that identifier is given the generator's next element or its
\* end, never the rejected element again; and an entry leaves the registry only
\* in a pull that raises StopIteration.
C28_RejectedElementSkipped ==
  [][\A id \in Ids :
       /\ (PullFinished(id) /\ Rejected(log'[id][Len(log'[id])])) =>
            /\ iterators' = iterators
            /\ iterators[id] # 0
            /\ cursor'[iterators[id]] = cursor[iterators[id]] + 1
            /\ cursor[iterators[id]] + 1 = log'[id][Len(log'[id])].values.val
       /\ (PullFinished(id) /\ log[id] # <<>> /\ Rejected(log[id][Len(log[id])])) =>
            \/ log'[id][Len(log'[id])].kind = "StopIteration"
            \/ log'[id][Len(log'[id])].values.val = log[id][Len(log[id])].values.val + 1
       /\ (iterators[id] # 0 /\ iterators'[id] = 0) =>
            /\ PullFinished(id)
            /\ log'[id][Len(log'[id])].kind = "StopIteration"]_vars

\* A first element was rejected, the second was returned by the next pull, and
\* the identifier's entry is still in the registry.
C28_Witness ==
  \E id \in Ids :
    /\ Len(log[id]) = 2
    /\ Rejected(log[id][1])
    /\ log[id][2].kind = "element"
    /\ log[id][2].values.val = 2
    /\ iterators[id] # 0

\* ---- helpers of the statement about the registry's entries
\* A pull on id has begun
Pulled(id) ==
  \/ log[id] # <<>>
  \/ \E t \in Threads :
       cur_id[t] = id /\ pc[t] \in {"lookup", "factory", "next", "running", "completed"}

\* C30: in every reachable state an identifier has an entry in the registry
\* only if it was issued (it is below _next_id), a pull on it has begun, and no
\* pull on it has raised StopIteration. Stated for identifiers whose pulls never
\* overlapped.
C30_RegistryEntries ==
  \A id \in Ids :
    (iterators[id] # 0 /\ id \notin raced) =>
      /\ id < next_id
      /\ Pulled(id)
      /\ NotYetCompleted(id)

\* The parts of C30 that hold: an entry is of an issued identifier on which a
\* pull has begun; get_next_id changes no entry; and an entry leaves the
\* registry only in a pull that raises StopIteration, so the entry of an
\* identifier that is pulled no more stays.
RegistryEntriesIssuedAndPulled ==
  /\ \A id \in Ids : iterators[id] # 0 => (id < next_id /\ Pulled(id))
  /\ \A t \in Threads : pc[t] = "incr" => iterators[ret[t]] = 0
RegistryEntriesOnlyCompletionRemoves ==
  [][/\ next_id' # next_id => iterators' = iterators
     /\ \A id \in Ids :
          (iterators[id] # 0 /\ iterators'[id] = 0) =>
            /\ PullFinished(id)
            /\ log'[id][Len(log'[id])].kind = "StopIteration"]_vars

\* ---- helpers of the statement about the shards of one dataset
\* p is q with some elements left out
RECURSIVE IsSubsequence(_, _)
IsSubsequence(p, q) ==
  IF p = <<>> THEN TRUE
  ELSE IF q = <<>> THEN FALSE
  ELSE IF Head(p) = Head(q) THEN IsSubsequence(Tail(p), Tail(q))
  ELSE IsSubsequence(p, Tail(q))
\* How often v was delivered by the first k shards
RECURSIVE DeliveredCount(_, _)
DeliveredCount(k, v) ==
  IF k = 0 THEN 0 ELSE Count(sp_out[k], v) + DeliveredCount(k - 1, v)
AllShardsEnded == sp_ds # <<>> /\ \A k \in 1..Len(sp_ds) : sp_ended[k] = "end"

\* C29: the shards of indices 0 .. num_shards - 1 of one dataset partition it:
\* no call raises and no pull fails; every shard delivers a subsequence of the
\* dataset, so nothing foreign and in the dataset's order; together the shards
\* never deliver a value more often than the dataset holds it; and once all
\* have ended, every value was delivered as often as the dataset holds it, so
\* each element is in exactly one shard.
C29_ShardsPartition ==
  sp_ds # <<>> =>
    /\ Len(sp_ds) = sp_call.num_shards
    /\ \A k \in 1..Len(sp_ds) :
         /\ ~HasRaised(sp_ds[k])
         /\ sp_ended[k] \in {"no", "end"}
         /\ IsSubsequence(sp_out[k], sp_call.input)
    /\ \A v \in {1, 2, 3} :
         /\ DeliveredCount(Len(sp_ds), v) <= Count(sp_call.input, v)
         /\ AllShardsEnded => DeliveredCount(Len(sp_ds), v) = Count(sp_call.input, v)

\* The two shards of <<1, 2, 3>> have ended with <<1, 3>> and <<2>>.
C29_Witness ==
  /\ sp_call = [input |-> <<1, 2, 3>>, num_shards |-> 2]
  /\ AllShardsEnded
  /\ sp_out = << <<1, 3>>, <<2>> >>

\* ---- helpers of the statement about nodes with a user function
\* The schema the first invocation of the user function gives
FirstInvocationSchema ==
  << <<UserFuncResult(dn_call.func, 1).types>>, <<UserFuncResult(dn_call.func, 1).shapes>> >>

\* C27: a map, flat_map or interleave node has no schema before its user
\* function was invoked; the constructor invokes the function once and the
\* object then has the schema of that invocation; reading output_types and
\* output_shapes, make_dataset_resource and making an iterator never invoke
\* the function again and always find that same schema.
C27_SchemaResolvedOnce ==
  /\ dn_node = <<>> => (dn_calls = 0 /\ dn_first = <<>> /\ dn_seen = <<>>)
  /\ dn_node # <<>> =>
       /\ dn_calls = 1
       /\ dn_first = FirstInvocationSchema
       /\ DynamicSchema(dn_node[1]) = dn_first
       /\ \A k \in 1..Len(dn_seen) :
            /\ dn_seen[k].schema = dn_first
            /\ dn_seen[k].op = "iterator" => dn_seen[k].before = dn_first

\* An interleave node whose function would return another schema if invoked
\* again was read, had its resource made and an iterator made over it.
C27_Witness ==
  /\ dn_call = [kind |-> "InterleaveDataset", func |-> "other_when_reinvoked"]
  /\ Len(dn_seen) = 3
  /\ dn_seen[1].op = "read"
  /\ dn_seen[2].op = "resource"
  /\ dn_seen[3].op = "iterator"

====
